---- MODULE Spec2Model ----
(***************************************************************************)
(* git-lfs-cache: the file-backed fan-out channel (src/src/channel.rs) and *)
(* the transfer-agent request loop (src/src/transfer_agent.rs).            *)
(*                                                                         *)
(* The channel copies bytes without inspecting them, so the clients of the *)
(* channel write bytes tagged with their position in the written stream:   *)
(* a lost, duplicated, reordered or stale byte is then always visible.     *)
(*                                                                         *)
(* The transfer agent answers any number of requests.  What it writes      *)
(* (stdout, the logs, the cache, the files of lfs/tmp) is recorded for the *)
(* request read last; the Context carries over from request to request.    *)
(***************************************************************************)
EXTENDS Integers, Sequences, FiniteSets, TLC

\* ------------------------------------------------------------------ bounds
MaxBytes == 2
MaxResets == 1

\* the streams of channel/tests.rs: body_0 is opened before the first write,
\* body_1 after a write, body_2 after the last call on the writer
Readers == {"body_0", "body_1", "body_2"}
ChunkLens == 1..MaxBytes

IsPrefix(s, t) == Len(s) <= Len(t) /\ SubSeq(t, 1, Len(s)) = s

\* --------------------------------------------------------------- variables
VARIABLES
    chan,       \* Channel: "none" | "fresh" | "open" | "kept" | "dropped"
    temp,       \* name of the backing file of the latest channel (Channel.temp)
    dir,        \* names of the files new_in created that are still in its directory
    keptFile,   \* content of the files at the paths returned by keep()
    file,       \* content on disk of the backing file (Channel.temp)
    wbuf,       \* bytes accepted by Writer.writer (BufWriter<File>), not on disk yet
    state,      \* value of the watch channel Writer.state / Reader.state
    wpc,        \* position of the task owning the Writer
    wdata,      \* argument of the write call in progress
    rpc,        \* position of each reader stream
    pos,        \* pos of each reader stream (also the offset of its file handle)
    seen,       \* whether a stream's watch::Receiver has seen the latest version
    rgen,       \* generation a stream last observed
    out,        \* history: bytes a stream has yielded
    rhit,       \* history: stream had a non-zero pos when reset() published
    written,    \* history: concatenation of the writes since the last reset
    prewritten, \* history: data written before the last reset
    nwrites,    \* history: number of write calls since init
    nresets     \* history: number of reset calls since init

chanVars == <<chan, temp, dir, keptFile, file, wbuf, state, wpc, wdata, rpc, pos, seen,
              rgen, out, rhit, written, prewritten, nwrites, nresets>>

\* the transfer agent (transfer_agent.rs)
VARIABLES
    apc,        \* position of main / Context::download
    cache,      \* Context.cache: "none", or the backend configured by --cache
    operation,  \* Context.operation
    remote,     \* Context.remote
    server_discovery, \* Context.server_discovery
    logs,       \* lines written to Context.logs since the last request was read
    stdout,     \* lines written to stdout since the last request was read
    request,    \* the request read last from stdin
    oid,        \* oid of the download read last
    tpc,        \* the three futures of try_join3: "run" | "ok" | "err"
    gpc,        \* position of the future that feeds the writer
    body,       \* bytes of the response body not yet written to the channel
    bytes_so_far,     \* progress: bytes_so_far
    bytes_since_last, \* progress: bytes_since_last
    result,     \* value Context::download returned for the download read last
    store,      \* objects put into the cache since the last request was read
    hit,        \* history: outcome of the cache attempt of the download read last
    calls       \* history: discovery and batch calls of the download read last, until
                \* its GET has succeeded

agentVars == <<apc, cache, operation, remote, server_discovery, logs, stdout, request,
               oid, tpc, gpc, body, bytes_so_far, bytes_since_last, result, store, hit,
               calls>>

\* the filesystem cache (cache/filesystem.rs)
VARIABLES
    put,        \* each call of Cache::put: its position, the bytes its stream has
                \* yielded, the buffer of its BufWriter, the content of its file
    root,       \* the directory of an oid: the call whose file is at path(oid),
                \* the calls whose temporary files are in that directory
    getter      \* a call of Cache::get: its position, its file handle, what it read

fsVars == <<put, root, getter>>

\* endpoint discovery (git_lfs/server_discovery.rs)
VARIABLES
    env,        \* what git answers in current_dir for the remote
    response    \* the call of server_discovery and the value it returned

sdVars == <<env, response>>

vars == <<chanVars, agentVars, fsVars, sdVars>>

WriterAlive == wpc \in {"idle", "write", "reset_truncate", "reset_publish", "finish_publish"}
\* the watch::Sender is dropped together with the Writer (finish consumes self)
Closed == wpc \in {"finished", "dropped"}

\* ------------------------------------------------------------ the channel
\* channel::new_in: a fresh, empty, uniquely named file in dir
new_in ==
    /\ chan' = "fresh"
    /\ file' = <<>>
    /\ wbuf' = <<>>
    /\ state' = [size |-> 0, eof |-> FALSE, gen |-> 0]
    /\ wpc' = "none"
    /\ wdata' = <<>>
    /\ rpc' = [r \in Readers |-> "unopened"]
    /\ pos' = [r \in Readers |-> 0]
    /\ seen' = [r \in Readers |-> TRUE]
    /\ rgen' = [r \in Readers |-> 0]
    /\ out' = [r \in Readers |-> <<>>]
    /\ rhit' = [r \in Readers |-> FALSE]
    /\ written' = <<>>
    /\ prewritten' = <<>>
    /\ nwrites' = 0
    /\ nresets' = 0

\* Channel::init: set_len(0), a new watch channel, one Writer and one Reader
Channel_init ==
    /\ chan = "fresh"
    /\ chan' = "open"
    /\ file' = <<>>
    /\ state' = [size |-> 0, eof |-> FALSE, gen |-> 0]
    /\ seen' = [r \in Readers |-> TRUE]
    /\ wpc' = "idle"
    /\ UNCHANGED <<temp, dir, keptFile, wbuf, wdata, rpc, pos, rgen, out, rhit,
                   written, prewritten, nwrites, nresets>>

\* watch::Sender::send_modify: the value changes and every receiver's version is stale
send_modify(v) ==
    /\ state' = v
    /\ seen' = [r \in Readers |-> FALSE]

\* Writer::write, first half: self.writer.write_all(data).await
Writer_write_all(data) ==
    /\ wpc = "idle"
    /\ Len(prewritten) + Len(written) + Len(data) <= MaxBytes
    /\ wbuf' = wbuf \o data
    /\ wdata' = data
    /\ wpc' = "write"
    /\ written' = written \o data
    /\ nwrites' = nwrites + 1
    /\ UNCHANGED <<chan, temp, dir, keptFile, file, state, seen, rpc, pos, rgen, out, rhit, prewritten, nresets>>

\* mutant: the published size is assigned, not incremented
Writer_write_publish_assign ==
    /\ wpc = "write"
    /\ send_modify([state EXCEPT !.size = Len(wdata)])
    /\ wdata' = <<>>
    /\ wpc' = "idle"
    /\ UNCHANGED <<chan, temp, dir, keptFile, file, wbuf, rpc, pos, rgen, out, rhit,
                   written, prewritten, nwrites, nresets>>

\* Writer::write, second half: send_modify(|(size, _)| *size += data.len())
Writer_write_publish ==
    /\ wpc = "write"
    /\ send_modify([state EXCEPT !.size = @ + Len(wdata)])
    /\ wdata' = <<>>
    /\ wpc' = "idle"
    /\ UNCHANGED <<chan, temp, dir, keptFile, file, wbuf, rpc, pos, rgen, out, rhit,
                   written, prewritten, nwrites, nresets>>

\* The BufWriter spills and tokio's File completes its write on a blocking
\* thread: any non-empty prefix of the buffered bytes may reach the disk
\* while the Writer is alive.
File_flush_some ==
    /\ WriterAlive
    /\ wbuf # <<>>
    /\ \E k \in 1..Len(wbuf) :
          /\ file' = file \o SubSeq(wbuf, 1, k)
          /\ wbuf' = SubSeq(wbuf, k + 1, Len(wbuf))
    /\ UNCHANGED <<chan, temp, dir, keptFile, state, wpc, wdata, rpc, pos, seen, rgen, out,
                   rhit, written, prewritten, nwrites, nresets>>

\* mutant: finish publishes eof without flushing the buffered writer
Writer_finish_noflush ==
    /\ wpc = "idle"
    /\ wpc' = "finish_publish"
    /\ UNCHANGED <<chan, temp, dir, keptFile, file, wbuf, state, wdata, rpc, pos, seen, rgen,
                   out, rhit, written, prewritten, nwrites, nresets>>

\* mutant: finish waits until every open stream has read what is published
Writer_finish_flush_drained ==
    /\ wpc = "idle"
    /\ \A r \in Readers : rpc[r] # "unopened" => pos[r] = state.size
    /\ file' = file \o wbuf
    /\ wbuf' = <<>>
    /\ wpc' = "finish_publish"
    /\ UNCHANGED <<chan, temp, dir, keptFile, state, wdata, rpc, pos, seen, rgen, out, rhit, written, prewritten, nwrites, nresets>>

\* Writer::finish, first half: self.writer.flush().await
Writer_finish_flush ==
    /\ wpc = "idle"
    /\ file' = file \o wbuf
    /\ wbuf' = <<>>
    /\ wpc' = "finish_publish"
    /\ UNCHANGED <<chan, temp, dir, keptFile, state, wdata, rpc, pos, seen, rgen, out, rhit, written, prewritten, nwrites, nresets>>

\* mutant: finish borrows the Writer, which can be used again
Writer_finish_publish_borrowed ==
    /\ wpc = "finish_publish"
    /\ send_modify([state EXCEPT !.eof = TRUE])
    /\ wpc' = "idle"
    /\ UNCHANGED <<chan, temp, dir, keptFile, file, wbuf, wdata, rpc, pos, rgen, out, rhit, written, prewritten, nwrites, nresets>>

\* Writer::finish, second half: send_modify(|(_, eof)| *eof = true); self is dropped
Writer_finish_publish ==
    /\ wpc = "finish_publish"
    /\ send_modify([state EXCEPT !.eof = TRUE])
    /\ wpc' = "finished"
    /\ UNCHANGED <<chan, temp, dir, keptFile, file, wbuf, wdata, rpc, pos, rgen, out, rhit, written, prewritten, nwrites, nresets>>

\* The Writer is dropped without finish, at any await point of its owner.
\* BufWriter does not flush on drop; a write already handed to the File may
\* still complete.
Writer_drop ==
    /\ WriterAlive
    /\ \E k \in 0..Len(wbuf) : file' = file \o SubSeq(wbuf, 1, k)
    /\ wbuf' = <<>>
    /\ wpc' = "dropped"
    /\ UNCHANGED <<chan, temp, dir, keptFile, state, wdata, rpc, pos, seen, rgen, out, rhit, written, prewritten, nwrites, nresets>>

\* mutant: the path is returned but the NamedTempFile is dropped, not kept
Channel_keep_unlink ==
    /\ chan \in {"fresh", "open"}
    /\ ~WriterAlive
    /\ chan' = "kept"
    /\ keptFile' = (temp :> file) @@ keptFile
    /\ dir' = dir \ {temp}
    /\ UNCHANGED <<temp, file, wbuf, state, wpc, wdata, rpc, pos, seen, rgen, out, rhit, written, prewritten, nwrites, nresets>>

\* Channel::keep: NamedTempFile::keep, the file stays and its path is returned.
\* keep takes self by value: no Writer and no Reader borrows the channel any more.
Channel_keep ==
    /\ chan \in {"fresh", "open"}
    /\ ~WriterAlive
    /\ chan' = "kept"
    /\ keptFile' = (temp :> file) @@ keptFile
    /\ UNCHANGED <<temp, dir, file, wbuf, state, wpc, wdata, rpc, pos, seen, rgen, out, rhit, written, prewritten, nwrites, nresets>>

\* mutant: the channel holds a plain File, nothing unlinks it on drop
Channel_drop_leak ==
    /\ chan \in {"fresh", "open"}
    /\ ~WriterAlive
    /\ chan' = "dropped"
    /\ UNCHANGED <<temp, dir, keptFile, file, wbuf, state, wpc, wdata, rpc, pos, seen, rgen,
                   out, rhit, written, prewritten, nwrites, nresets>>

\* drop(Channel): NamedTempFile's destructor unlinks the file
Channel_drop ==
    /\ chan \in {"fresh", "open"}
    /\ ~WriterAlive
    /\ chan' = "dropped"
    /\ dir' = dir \ {temp}
    /\ UNCHANGED <<temp, keptFile, file, wbuf, state, wpc, wdata, rpc, pos, seen, rgen, out,
                   rhit, written, prewritten, nwrites, nresets>>

\* Writer::reset: flush, truncate the backing file to length zero, publish
\* (length = 0, eof = false, generation + 1)
reset_flush ==
    /\ wpc = "idle"
    /\ file' = file \o wbuf
    /\ wbuf' = <<>>
    /\ wpc' = "reset_truncate"
    /\ nresets' = nresets + 1
    /\ UNCHANGED <<chan, temp, dir, keptFile, state, wdata, rpc, pos, seen, rgen, out,
                   rhit, written, prewritten, nwrites>>

\* reset() as the tests of the channel call it, up to MaxResets times
Writer_reset_flush == nresets < MaxResets /\ reset_flush

Writer_reset_truncate ==
    /\ wpc = "reset_truncate"
    /\ file' = <<>>
    /\ wpc' = "reset_publish"
    /\ UNCHANGED <<chan, temp, dir, keptFile, wbuf, state, wdata, rpc, pos, seen, rgen,
                   out, rhit, written, prewritten, nwrites, nresets>>

Writer_reset_publish ==
    /\ wpc = "reset_publish"
    /\ send_modify([size |-> 0, eof |-> FALSE, gen |-> state.gen + 1])
    /\ wpc' = "idle"
    /\ rhit' = [r \in Readers |->
                  rhit[r] \/ (rpc[r] \in {"wait", "fill", "changed"} /\ pos[r] > 0)]
    /\ prewritten' = prewritten \o written
    /\ written' = <<>>
    /\ UNCHANGED <<chan, temp, dir, keptFile, file, wbuf, wdata, rpc, pos, rgen, out,
                   nwrites, nresets>>

\* ------------------------------------------------------ the reader streams
\* Reader::stream: reopen the file, clone the receiver, pos = 0
Reader_stream(r) ==
    /\ chan = "open"
    /\ rpc[r] = "unopened"
    /\ rpc' = [rpc EXCEPT ![r] = "wait"]
    /\ rgen' = [rgen EXCEPT ![r] = state.gen]
    /\ UNCHANGED <<chan, temp, dir, keptFile, file, wbuf, state, wpc, wdata, pos, seen,
                   out, rhit, written, prewritten, nwrites, nresets>>

\* mutant: a cursor fails on any generation change, also at position 0
ResetObserved_any(r) == state.gen # rgen[r]

\* mutant: cursors do not compare generations
ResetObserved_never(r) == FALSE

\* a cursor that has emitted bytes observes a generation change
ResetObserved(r) == state.gen # rgen[r] /\ pos[r] > 0

\* mutant: a closed watch channel is taken for the end of the sequence
Reader_wait_for_closed_ok(r) ==
    /\ rpc[r] = "wait"
    /\ IF ResetObserved(r)
       THEN /\ rpc' = [rpc EXCEPT ![r] = "broken"]
            /\ UNCHANGED <<seen, rgen>>
       ELSE IF state.size > pos[r] \/ state.eof
       THEN /\ seen' = [seen EXCEPT ![r] = TRUE]
            /\ rgen' = [rgen EXCEPT ![r] = state.gen]
            /\ rpc' = [rpc EXCEPT ![r] =
                         IF pos[r] < state.size THEN "fill"
                         ELSE IF state.eof THEN "done" ELSE "panic"]
       ELSE /\ Closed
            /\ rpc' = [rpc EXCEPT ![r] = "done"]
            /\ UNCHANGED <<seen, rgen>>
    /\ UNCHANGED <<chan, temp, dir, keptFile, file, wbuf, state, wpc, wdata, pos, out,
                   rhit, written, prewritten, nwrites, nresets>>

\* mutant: wait_for returns as soon as the length has reached the position
Reader_wait_for_at_size(r) ==
    /\ rpc[r] = "wait"
    /\ IF ResetObserved(r)
       THEN /\ rpc' = [rpc EXCEPT ![r] = "broken"]
            /\ UNCHANGED <<seen, rgen>>
       ELSE IF state.size >= pos[r] \/ state.eof
       THEN /\ seen' = [seen EXCEPT ![r] = TRUE]
            /\ rgen' = [rgen EXCEPT ![r] = state.gen]
            /\ rpc' = [rpc EXCEPT ![r] =
                         IF pos[r] < state.size THEN "fill"
                         ELSE IF state.eof THEN "done" ELSE "panic"]
       ELSE /\ Closed
            /\ rpc' = [rpc EXCEPT ![r] = "broken"]
            /\ UNCHANGED <<seen, rgen>>
    /\ UNCHANGED <<chan, temp, dir, keptFile, file, wbuf, state, wpc, wdata, pos, out,
                   rhit, written, prewritten, nwrites, nresets>>

\* state.wait_for(|(size, eof)| *size > pos || *eof), then the branch on pos < size
Reader_wait_for(r) ==
    /\ rpc[r] = "wait"
    /\ IF ResetObserved(r)
       THEN /\ rpc' = [rpc EXCEPT ![r] = "broken"]
            /\ UNCHANGED <<seen, rgen>>
       ELSE IF state.size > pos[r] \/ state.eof
       THEN /\ seen' = [seen EXCEPT ![r] = TRUE]
            /\ rgen' = [rgen EXCEPT ![r] = state.gen]
            /\ rpc' = [rpc EXCEPT ![r] =
                         IF pos[r] < state.size THEN "fill"
                         ELSE IF state.eof THEN "done" ELSE "panic"]
       ELSE /\ Closed
            /\ rpc' = [rpc EXCEPT ![r] = "broken"]
            /\ UNCHANGED <<seen, rgen>>
    /\ UNCHANGED <<chan, temp, dir, keptFile, file, wbuf, state, wpc, wdata, pos, out,
                   rhit, written, prewritten, nwrites, nresets>>

\* mutant: fill_buf reads from the start of the file, not from the handle's
\* offset
Reader_fill_buf_rewound(r) ==
    /\ rpc[r] = "fill"
    /\ IF Len(file) <= pos[r]
       THEN /\ rpc' = [rpc EXCEPT ![r] = "changed"]
            /\ UNCHANGED <<pos, out>>
       ELSE \E k \in 1..(Len(file) - pos[r]) :
               /\ out' = [out EXCEPT ![r] = @ \o SubSeq(file, 1, k)]
               /\ pos' = [pos EXCEPT ![r] = @ + k]
               /\ rpc' = [rpc EXCEPT ![r] = "wait"]
    /\ UNCHANGED <<chan, temp, dir, keptFile, file, wbuf, state, wpc, wdata, seen, rgen,
                   rhit, written, prewritten, nwrites, nresets>>

\* reader.fill_buf(): empty when the file has nothing at the handle's offset,
\* otherwise a non-empty block that is consumed and yielded
Reader_fill_buf(r) ==
    /\ rpc[r] = "fill"
    /\ IF Len(file) <= pos[r]
       THEN /\ rpc' = [rpc EXCEPT ![r] = "changed"]
            /\ UNCHANGED <<pos, out>>
       ELSE \E k \in 1..(Len(file) - pos[r]) :
               /\ out' = [out EXCEPT ![r] = @ \o SubSeq(file, pos[r] + 1, pos[r] + k)]
               /\ pos' = [pos EXCEPT ![r] = @ + k]
               /\ rpc' = [rpc EXCEPT ![r] = "wait"]
    /\ UNCHANGED <<chan, temp, dir, keptFile, file, wbuf, state, wpc, wdata, seen, rgen,
                   rhit, written, prewritten, nwrites, nresets>>

\* mutant: changed() does not notice that the sender is gone
Reader_changed_unclosed(r) ==
    /\ rpc[r] = "changed"
    /\ IF ResetObserved(r)
       THEN /\ rpc' = [rpc EXCEPT ![r] = "broken"]
            /\ UNCHANGED <<seen, rgen>>
       ELSE /\ ~seen[r]
            /\ seen' = [seen EXCEPT ![r] = TRUE]
            /\ rgen' = [rgen EXCEPT ![r] = state.gen]
            /\ rpc' = [rpc EXCEPT ![r] = "fill"]
    /\ UNCHANGED <<chan, temp, dir, keptFile, file, wbuf, state, wpc, wdata, pos, out,
                   rhit, written, prewritten, nwrites, nresets>>

\* state.changed().await.map_err(|_| BrokenPipe)
Reader_changed(r) ==
    /\ rpc[r] = "changed"
    /\ IF ResetObserved(r)
       THEN /\ rpc' = [rpc EXCEPT ![r] = "broken"]
            /\ UNCHANGED <<seen, rgen>>
       ELSE IF ~seen[r]
       THEN /\ seen' = [seen EXCEPT ![r] = TRUE]
            /\ rgen' = [rgen EXCEPT ![r] = state.gen]
            /\ rpc' = [rpc EXCEPT ![r] = "fill"]
       ELSE /\ Closed
            /\ rpc' = [rpc EXCEPT ![r] = "broken"]
            /\ UNCHANGED <<seen, rgen>>
    /\ UNCHANGED <<chan, temp, dir, keptFile, file, wbuf, state, wpc, wdata, pos, out,
                   rhit, written, prewritten, nwrites, nresets>>

\* ------------------------------------------------------ the transfer agent
\* Option<T>: <<>> is None, <<v>> is Some(v)
None == <<>>
Some(v) == <<v>>

\* the bodies a cache or a server may answer with
Bodies == {[i \in 1..n |-> i] : n \in 0..MaxBytes}
\* hex::encode(Sha256::digest(bytes)): distinct contents have distinct digests
Sha256Hex(bytes) == <<"sha256", bytes>>
\* the objects the client asks for: the longest body and its longest proper prefix
Objects == {b \in Bodies : Len(b) >= MaxBytes - 1}
Oids == {Sha256Hex(b) : b \in Objects}
Operations == {"upload", "download"}
Remotes == {"origin"}

\* anyhow errors: a git_lfs::Error with an HTTP status, or anything else
LfsError(code, message) == [lfs |-> TRUE, code |-> code, message |-> message]
OtherError(message) == [lfs |-> FALSE, code |-> 0, message |-> message]

\* mutant: an error without a status is reported as a client error
error_bad_request(e) ==
    IF e.lfs THEN [code |-> e.code, message |-> e.message]
    ELSE [code |-> 400, message |-> e.message]

\* mutant: every error is reported with code 500
error_internal(e) == [code |-> 500, message |-> e.message]

\* transfer_agent::error: downcast to git_lfs::Error, otherwise code 500
error(e) ==
    IF e.lfs THEN [code |-> e.code, message |-> e.message]
    ELSE [code |-> 500, message |-> e.message]

InitResponse == [event |-> "init", error |-> None]
Complete(o, path, err) == [event |-> "complete", oid |-> o, path |-> path, error |-> err]
Progress(o, so_far, since_last) ==
    [event |-> "progress", oid |-> o, bytesSoFar |-> so_far, bytesSinceLast |-> since_last]
Ok(path) == [ok |-> TRUE, path |-> Some(path), error |-> None]
Err(e) == [ok |-> FALSE, path |-> None, error |-> Some(e)]

\* no channel exists: its Writer, Reader and streams have been dropped
no_channel ==
    /\ chan' = "none"
    /\ file' = <<>>
    /\ wbuf' = <<>>
    /\ state' = [size |-> 0, eof |-> FALSE, gen |-> 0]
    /\ wpc' = "none"
    /\ wdata' = <<>>
    /\ rpc' = [r \in Readers |-> "unopened"]
    /\ pos' = [r \in Readers |-> 0]
    /\ seen' = [r \in Readers |-> TRUE]
    /\ rgen' = [r \in Readers |-> 0]
    /\ out' = [r \in Readers |-> <<>>]
    /\ rhit' = [r \in Readers |-> FALSE]
    /\ written' = <<>>
    /\ prewritten' = <<>>
    /\ nwrites' = 0
    /\ nresets' = 0

\* the request is no download: oid, result and hit tell of no download
no_download ==
    /\ oid' = <<>>
    /\ tpc' = [get |-> "run", check |-> "run", progress |-> "run"]
    /\ gpc' = "request"
    /\ body' = <<>>
    /\ bytes_so_far' = 0
    /\ bytes_since_last' = 0
    /\ result' = Err(OtherError("pending"))
    /\ hit' = "none"
    /\ calls' = <<>>

\* channel::new_in(size, &temp_dir) in Context::download: one more file in
\* lfs/tmp, next to the files d with the kept ones k
download_new_in(t, d, k) ==
    /\ new_in
    /\ temp' = t + 1
    /\ dir' = d \cup {t + 1}
    /\ keptFile' = k

\* mutant: the next request is read while a download awaits its complete
read_early(q) ==
    /\ apc \in {"read", "complete"}
    /\ request' = q

\* stdin.read() yields a request: logs, store, dir and keptFile start to
\* record what the agent does while it answers this request
read(q) ==
    /\ apc = "read"
    /\ request' = q

\* nothing is stored, logged or created in lfs/tmp
no_effects ==
    /\ logs' = <<>>
    /\ store' = {}
    /\ temp' = 0
    /\ dir' = {}
    /\ keptFile' = <<>>
    /\ UNCHANGED <<chan, file, wbuf, state, wpc, wdata, rpc, pos, seen, rgen, out, rhit,
                   written, prewritten, nwrites, nresets>>

\* mutant: an init that names another remote drops the cached discovery
Main_init_invalidate(op, rm) ==
    /\ read([event |-> "init", oid |-> <<>>])
    /\ operation' = op
    /\ remote' = rm
    /\ server_discovery' = IF rm = remote THEN server_discovery ELSE None
    /\ stdout' = <<InitResponse>>
    /\ no_effects
    /\ no_download
    /\ UNCHANGED <<apc, cache>>

\* Context::init: record operation and remote; main answers InitResponse
Main_init(op, rm) ==
    /\ read([event |-> "init", oid |-> <<>>])
    /\ operation' = op
    /\ remote' = rm
    /\ stdout' = <<InitResponse>>
    /\ no_effects
    /\ no_download
    /\ UNCHANGED <<apc, cache, server_discovery>>

\* main, Request::Upload: Complete with error "unimplemented"
Main_upload(o) ==
    /\ read([event |-> "upload", oid |-> o])
    /\ stdout' = <<Complete(o, None, Some(error(OtherError("unimplemented"))))>>
    /\ no_effects
    /\ no_download
    /\ UNCHANGED <<apc, cache, operation, remote, server_discovery>>

\* main, Request::Download: Context::download up to the first await of try_join3
Main_download(o) ==
    /\ read([event |-> "download", oid |-> o])
    /\ stdout' = <<>>
    /\ logs' = <<>>
    /\ store' = {}
    /\ oid' = o
    /\ hit' = "none"
    /\ result' = Err(OtherError("pending"))
    /\ bytes_so_far' = 0
    /\ bytes_since_last' = 0
    /\ body' = <<>>
    /\ gpc' = "request"
    /\ tpc' = [get |-> "run", check |-> "run", progress |-> "run"]
    /\ IF cache # "none"
       THEN /\ download_new_in(0, {}, <<>>)
            /\ apc' = "hit_init"
       ELSE /\ apc' = "discovery"
            /\ temp' = 0
            /\ dir' = {}
            /\ keptFile' = <<>>
            /\ UNCHANGED <<chan, file, wbuf, state, wpc, wdata, rpc, pos, seen, rgen, out,
                           rhit, written, prewritten, nwrites, nresets>>
    /\ UNCHANGED <<cache, operation, remote, server_discovery>>
    /\ calls' = <<>>

\* main, Request::Terminate: break
Main_terminate ==
    /\ read([event |-> "terminate", oid |-> <<>>])
    /\ apc' = "exit"
    /\ stdout' = <<>>
    /\ no_effects
    /\ no_download
    /\ UNCHANGED <<cache, operation, remote, server_discovery>>

\* stdin.read() returns None: the loop ends
Main_eof ==
    /\ apc = "read"
    /\ apc' = "exit"
    /\ UNCHANGED <<cache, operation, remote, server_discovery, logs, stdout, request, oid,
                   tpc, gpc, body, bytes_so_far, bytes_since_last, result, store, hit>>
    /\ UNCHANGED chanVars
    /\ UNCHANGED calls

\* mutant: the line that is no request is answered with an error before
\* main returns
Main_bad_line_answered ==
    /\ apc = "read"
    /\ apc' = "aborted"
    /\ stdout' = Append(stdout, Complete(request.oid, None, Some(error(OtherError("line")))))
    /\ UNCHANGED <<cache, operation, remote, server_discovery, logs, request, oid,
                   tpc, gpc, body, bytes_so_far, bytes_since_last, result, store, hit>>
    /\ UNCHANGED chanVars
    /\ UNCHANGED calls

\* stdin.read() fails on a line that is no request: main returns the error
Main_bad_line ==
    /\ apc = "read"
    /\ apc' = "aborted"
    /\ UNCHANGED <<cache, operation, remote, server_discovery, logs, stdout, request, oid,
                   tpc, gpc, body, bytes_so_far, bytes_since_last, result, store, hit>>
    /\ UNCHANGED chanVars
    /\ UNCHANGED calls

\* ---- the fan-out group of a download: channel.init() and the first poll
Download_channel_init ==
    /\ apc \in {"hit_init", "miss_init"}
    /\ Channel_init
    /\ apc' = IF apc = "hit_init" THEN "hit_open" ELSE "miss_open"
    /\ UNCHANGED <<cache, operation, remote, server_discovery, logs, stdout, request, oid,
                   tpc, gpc, body, bytes_so_far, bytes_since_last, result, store, hit>>
    /\ UNCHANGED calls

\* reader.stream() of the digest block (hit) or of cache.put (miss with a cache)
Download_stream_check ==
    /\ apc \in {"hit_open", "miss_open"}
    /\ tpc.check = "run"
    /\ Reader_stream("body_0")
    /\ UNCHANGED agentVars

\* reader.stream() of progress
Download_stream_progress ==
    /\ apc \in {"hit_open", "miss_open"}
    /\ tpc.check = "run" => rpc["body_0"] # "unopened"
    /\ Reader_stream("body_1")
    /\ apc' = IF apc = "hit_open" THEN "hit" ELSE "miss"
    /\ UNCHANGED <<cache, operation, remote, server_discovery, logs, stdout, request, oid,
                   tpc, gpc, body, bytes_so_far, bytes_since_last, result, store, hit>>
    /\ UNCHANGED calls

\* try_join3 polls its futures while none of them has failed
Polling == apc \in {"hit", "miss", "http_get"} /\ \A t \in DOMAIN tpc : tpc[t] # "err"

\* ---- first future: cache.get(oid, size, writer) or the server's body
\* the cache answers no object, a permanent error, or the retries give up
Cache_get_error ==
    /\ Polling /\ apc = "hit"
    /\ tpc.get = "run" /\ gpc = "request"
    /\ tpc' = [tpc EXCEPT !.get = "err"]
    /\ UNCHANGED <<apc, cache, operation, remote, server_discovery, logs, stdout, request,
                   oid, gpc, body, bytes_so_far, bytes_since_last, result, store, hit>>
    /\ UNCHANGED chanVars
    /\ UNCHANGED calls

\* the cache answers with a body; the http cache resets the writer first
Cache_get_response(b) ==
    /\ Polling /\ apc = "hit"
    /\ tpc.get = "run" /\ gpc = "request"
    /\ Len(prewritten) + Len(written) + Len(b) <= MaxBytes
    /\ cache = "http" => nresets < MaxResets
    /\ body' = b
    /\ gpc' = IF cache = "http" THEN "reset" ELSE "body"
    /\ UNCHANGED <<apc, cache, operation, remote, server_discovery, logs, stdout, request,
                   oid, tpc, bytes_so_far, bytes_since_last, result, store, hit>>
    /\ UNCHANGED chanVars
    /\ UNCHANGED calls

\* cache/http.rs: writer.reset() before the frames of a 2xx response
Cache_get_reset_flush ==
    /\ Polling /\ gpc = "reset"
    /\ reset_flush
    /\ UNCHANGED agentVars

Cache_get_reset_truncate ==
    /\ Polling /\ gpc = "reset"
    /\ Writer_reset_truncate
    /\ UNCHANGED agentVars

Cache_get_reset_publish ==
    /\ Polling /\ gpc = "reset"
    /\ Writer_reset_publish
    /\ gpc' = "body"
    /\ UNCHANGED <<apc, cache, operation, remote, server_discovery, logs, stdout, request,
                   oid, tpc, body, bytes_so_far, bytes_since_last, result, store, hit>>
    /\ UNCHANGED calls

\* body.frame() yields data: writer.write(&data), first half
Body_write_all(n) ==
    /\ Polling /\ gpc = "body"
    /\ n \in 1..Len(body)
    /\ Writer_write_all(SubSeq(body, 1, n))
    /\ body' = SubSeq(body, n + 1, Len(body))
    /\ UNCHANGED <<apc, cache, operation, remote, server_discovery, logs, stdout, request,
                   oid, tpc, gpc, bytes_so_far, bytes_since_last, result, store, hit>>
    /\ UNCHANGED calls

\* writer.write(&data), second half
Body_write_publish ==
    /\ Polling /\ gpc = "body"
    /\ Writer_write_publish
    /\ UNCHANGED agentVars

\* the File completes buffered writes while the writer is alive
Body_flush_some ==
    /\ Polling
    /\ File_flush_some
    /\ UNCHANGED agentVars

\* body.frame() fails: the http cache retries the request, every other
\* source fails the future
Body_frame_error ==
    /\ Polling /\ gpc = "body" /\ wpc = "idle"
    /\ IF apc = "hit" /\ cache = "http"
       THEN /\ gpc' = "request"
            /\ UNCHANGED tpc
       ELSE /\ tpc' = [tpc EXCEPT !.get = "err"]
            /\ UNCHANGED gpc
    /\ body' = <<>>
    /\ UNCHANGED <<apc, cache, operation, remote, server_discovery, logs, stdout, request,
                   oid, bytes_so_far, bytes_since_last, result, store, hit>>
    /\ UNCHANGED chanVars
    /\ UNCHANGED calls

\* the body ended: writer.finish(), first half
Body_finish_flush ==
    /\ Polling /\ gpc = "body" /\ body = <<>>
    /\ Writer_finish_flush
    /\ UNCHANGED agentVars

\* writer.finish(), second half: the future is Ok
Body_finish_publish ==
    /\ Polling /\ gpc = "body"
    /\ Writer_finish_publish
    /\ tpc' = [tpc EXCEPT !.get = "ok"]
    /\ UNCHANGED <<apc, cache, operation, remote, server_discovery, logs, stdout, request,
                   oid, gpc, body, bytes_so_far, bytes_since_last, result, store, hit>>
    /\ UNCHANGED calls

\* ---- second future: the digest block (hit) or cache.put (miss)
\* mutant: the digest block ends Ok without comparing
Check_outcome_nodigest(p, content) ==
    IF p = "broken" THEN "err"
    ELSE IF p # "done" THEN "run"
    ELSE "ok"

\* what the second future becomes when its stream is in position p
Check_outcome(p, content) ==
    IF p = "broken" THEN "err"
    ELSE IF p # "done" THEN "run"
    ELSE IF apc = "miss" THEN "ok"
    ELSE IF oid = Sha256Hex(content) THEN "ok" ELSE "err"

\* body.try_next() of the second future, one step of its stream; at the end
\* of the stream the digest is compared (hit) or the object is stored (miss)
Check_poll(step) ==
    /\ Polling /\ tpc.check = "run"
    /\ step
    /\ tpc' = [tpc EXCEPT !.check = Check_outcome(rpc'["body_0"], out'["body_0"])]
    /\ store' = IF apc = "miss" /\ rpc'["body_0"] = "done"
                THEN {e \in store : e[1] # oid} \cup {<<oid, out'["body_0"]>>}
                ELSE store
    /\ UNCHANGED <<apc, cache, operation, remote, server_discovery, logs, stdout, request,
                   oid, gpc, body, bytes_so_far, bytes_since_last, result, hit>>
    /\ UNCHANGED calls

Check_wait_for == Check_poll(Reader_wait_for("body_0"))
Check_fill_buf == Check_poll(Reader_fill_buf("body_0"))
Check_changed == Check_poll(Reader_changed("body_0"))

\* cache.put fails in the backend: with an error that has no status (0), or,
\* in the http cache, with the git_lfs::Error of the status it was answered
Cache_put_error(status) ==
    /\ Polling /\ apc = "miss"
    /\ tpc.check = "run"
    /\ status # 0 => cache = "http"
    /\ tpc' = [tpc EXCEPT !.check = "err"]
    /\ UNCHANGED <<apc, cache, operation, remote, server_discovery, logs, stdout, request,
                   oid, gpc, body, bytes_so_far, bytes_since_last, result, store, hit>>
    /\ UNCHANGED chanVars
    /\ calls' = Append(calls, [call |-> "put", outcome |-> IF status = 0 THEN "transport"
                                                           ELSE "status",
                               status |-> status])

\* ---- third future: progress(oid, &reader, stdout)
ProgressThreshold == 65536

\* one step of the progress stream: count a yielded block and emit when the
\* threshold is reached; at the end of the stream emit what is left
Progress_poll(step) ==
    /\ Polling /\ tpc.progress = "run"
    /\ step
    /\ LET n == pos'["body_1"] - pos["body_1"]
           since == bytes_since_last + n
       IN /\ bytes_so_far' = bytes_so_far + n
          /\ IF n > 0 /\ since >= ProgressThreshold
             THEN /\ stdout' = Append(stdout, Progress(oid, bytes_so_far + n, since))
                  /\ bytes_since_last' = 0
             ELSE IF rpc'["body_1"] = "done" /\ since > 0
             THEN /\ stdout' = Append(stdout, Progress(oid, bytes_so_far + n, since))
                  /\ bytes_since_last' = since
             ELSE /\ stdout' = stdout
                  /\ bytes_since_last' = since
    /\ tpc' = [tpc EXCEPT !.progress =
                 IF rpc'["body_1"] = "broken" THEN "err"
                 ELSE IF rpc'["body_1"] = "done" THEN "ok" ELSE "run"]
    /\ UNCHANGED <<apc, cache, operation, remote, server_discovery, logs, request,
                   oid, gpc, body, result, store, hit>>
    /\ UNCHANGED calls

Progress_wait_for == Progress_poll(Reader_wait_for("body_1"))
Progress_fill_buf == Progress_poll(Reader_fill_buf("body_1"))
Progress_changed == Progress_poll(Reader_changed("body_1"))

\* ---- the joins
\* mutant: the channel leaves its scope and its file stays in lfs/tmp
download_drop_channel_leak ==
    /\ no_channel
    /\ UNCHANGED <<temp, dir, keptFile>>

\* the writer, the streams and the channel go out of scope unkept: the
\* NamedTempFile is unlinked
download_drop_channel ==
    /\ no_channel
    /\ dir' = dir \ {temp}
    /\ UNCHANGED <<temp, keptFile>>

\* mutant: a failed cache attempt fails the download
Hit_join_err_propagate ==
    /\ apc = "hit"
    /\ \E t \in DOMAIN tpc : tpc[t] = "err"
    /\ download_drop_channel
    /\ hit' = "failed"
    /\ result' = Err(OtherError("cache"))
    /\ apc' = "complete"
    /\ UNCHANGED <<cache, operation, remote, server_discovery, logs, stdout, request,
                   oid, tpc, gpc, body, bytes_so_far, bytes_since_last, store>>
    /\ UNCHANGED calls

\* try_join3 of the cache attempt is Err: `else { None }`, on to the server
Hit_join_err ==
    /\ apc = "hit"
    /\ \E t \in DOMAIN tpc : tpc[t] = "err"
    /\ download_drop_channel
    /\ hit' = "failed"
    /\ apc' = "discovery"
    /\ UNCHANGED <<cache, operation, remote, server_discovery, logs, stdout, request,
                   oid, tpc, gpc, body, bytes_so_far, bytes_since_last, result, store>>
    /\ UNCHANGED calls

\* mutant: the channel is kept as soon as the first future is Ok
Download_join_ok_first ==
    /\ apc \in {"hit", "miss"}
    /\ tpc.get = "ok" /\ \A t \in DOMAIN tpc : tpc[t] # "err"
    /\ Channel_keep
    /\ hit' = IF apc = "hit" THEN "ok" ELSE hit
    /\ result' = Ok(temp)
    /\ apc' = "log"
    /\ UNCHANGED <<cache, operation, remote, server_discovery, logs, stdout, request,
                   oid, tpc, gpc, body, bytes_so_far, bytes_since_last, store>>
    /\ UNCHANGED calls

\* try_join3 is Ok: channel.keep()
Download_join_ok ==
    /\ apc \in {"hit", "miss"}
    /\ \A t \in DOMAIN tpc : tpc[t] = "ok"
    /\ Channel_keep
    /\ hit' = IF apc = "hit" THEN "ok" ELSE hit
    /\ result' = Ok(temp)
    /\ apc' = "log"
    /\ UNCHANGED <<cache, operation, remote, server_discovery, logs, stdout, request,
                   oid, tpc, gpc, body, bytes_so_far, bytes_since_last, store>>
    /\ UNCHANGED calls

\* the error of the first failed future of the server's fan-out
Miss_error ==
    IF tpc.get = "err" THEN OtherError("body")
    ELSE IF tpc.check = "err"
    THEN IF calls # <<>> /\ calls[Len(calls)].status # 0
         THEN LfsError(calls[Len(calls)].status, "put")
         ELSE OtherError("put")
    ELSE OtherError("broken pipe")

\* try_join3 of the server's fan-out is Err: `.await?`
Miss_join_err ==
    /\ apc = "miss"
    /\ \E t \in DOMAIN tpc : tpc[t] = "err"
    /\ download_drop_channel
    /\ result' = Err(Miss_error)
    /\ apc' = "complete"
    /\ UNCHANGED <<cache, operation, remote, server_discovery, logs, stdout, request,
                   oid, tpc, gpc, body, bytes_so_far, bytes_since_last, store, hit>>
    /\ UNCHANGED calls

\* mutant: the line never names a cache source
Download_log_nosource ==
    /\ apc = "log"
    /\ logs' = Append(logs, [operation |-> "download", oid |-> oid, cache |-> None])
    /\ apc' = "complete"
    /\ UNCHANGED <<cache, operation, remote, server_discovery, stdout, request,
                   oid, tpc, gpc, body, bytes_so_far, bytes_since_last, result, store, hit>>
    /\ UNCHANGED chanVars
    /\ UNCHANGED calls

\* self.logs.write(&logs::Line { .. cache: Some(source) | None .. })
Download_log ==
    /\ apc = "log"
    /\ logs' = Append(logs, [operation |-> "download", oid |-> oid,
                             cache |-> IF hit = "ok" THEN Some(cache) ELSE None])
    /\ apc' = "complete"
    /\ UNCHANGED <<cache, operation, remote, server_discovery, stdout, request,
                   oid, tpc, gpc, body, bytes_so_far, bytes_since_last, result, store, hit>>
    /\ UNCHANGED chanVars
    /\ UNCHANGED calls

\* mutant: main returns the error of a download with `?`
Main_complete_propagate ==
    /\ apc = "complete"
    /\ IF result.ok
       THEN /\ stdout' = Append(stdout, Complete(oid, result.path, None))
            /\ apc' = "read"
       ELSE /\ stdout' = stdout
            /\ apc' = "aborted"
    /\ no_channel
    /\ UNCHANGED <<temp, dir, keptFile>>
    /\ tpc' = [get |-> "run", check |-> "run", progress |-> "run"]
    /\ gpc' = "request"
    /\ body' = <<>>
    /\ bytes_so_far' = 0
    /\ bytes_since_last' = 0
    /\ UNCHANGED <<cache, operation, remote, server_discovery, logs, request, store,
                   oid, result, hit>>
    /\ UNCHANGED calls

\* main: the Complete of a download, from what Context::download returned
Main_complete ==
    /\ apc = "complete"
    /\ stdout' = Append(stdout,
          Complete(oid, result.path,
                   IF result.ok THEN None ELSE Some(error(result.error[1]))))
    /\ apc' = "read"
    /\ no_channel
    /\ UNCHANGED <<temp, dir, keptFile>>
    /\ tpc' = [get |-> "run", check |-> "run", progress |-> "run"]
    /\ gpc' = "request"
    /\ body' = <<>>
    /\ bytes_so_far' = 0
    /\ bytes_since_last' = 0
    /\ UNCHANGED <<cache, operation, remote, server_discovery, logs, request, store,
                   oid, result, hit>>
    /\ UNCHANGED calls

\* ---- the server path
\* Context::download returns Err before any channel exists
download_fail(e) ==
    /\ result' = Err(e)
    /\ apc' = "complete"

\* git_lfs::server_discovery(&self.current_dir, operation, remote, authorization)
discovery_call(authorization, outcome) ==
    [call |-> "server_discovery", authorization |-> authorization, outcome |-> outcome]

\* server_discovery::Response: the href and header derived from the url of
\* the session's remote, with or without credentials
discovery_response(authorization) ==
    [authorization |-> authorization, remote |-> remote]

\* mutant: without an init the discovery is derived for a default remote
Miss_discovery_default(found) ==
    /\ apc = "discovery"
    /\ IF server_discovery # None
       THEN /\ apc' = "batch"
            /\ UNCHANGED <<server_discovery, result, calls>>
       ELSE IF found
       THEN /\ server_discovery' =
                  Some(discovery_response(FALSE))
            /\ apc' = "batch"
            /\ calls' = Append(calls, discovery_call(FALSE, "ok"))
            /\ UNCHANGED result
       ELSE /\ download_fail(OtherError("server_discovery"))
            /\ calls' = Append(calls, discovery_call(FALSE, "error"))
            /\ UNCHANGED server_discovery
    /\ UNCHANGED <<cache, operation, remote, logs, stdout, request,
                   oid, tpc, gpc, body, bytes_so_far, bytes_since_last, store, hit>>
    /\ UNCHANGED chanVars

\* mutant: self.server_discovery(false) derives the response on every call
Miss_discovery_uncached(found) ==
    /\ apc = "discovery"
    /\ IF operation = "none" \/ remote = "none"
       THEN /\ download_fail(OtherError("uninitialized"))
            /\ UNCHANGED <<server_discovery, calls>>
       ELSE IF found
       THEN /\ server_discovery' =
                  Some(discovery_response(FALSE))
            /\ apc' = "batch"
            /\ calls' = Append(calls, discovery_call(FALSE, "ok"))
            /\ UNCHANGED result
       ELSE /\ download_fail(OtherError("server_discovery"))
            /\ calls' = Append(calls, discovery_call(FALSE, "error"))
            /\ UNCHANGED server_discovery
    /\ UNCHANGED <<cache, operation, remote, logs, stdout, request,
                   oid, tpc, gpc, body, bytes_so_far, bytes_since_last, store, hit>>
    /\ UNCHANGED chanVars

\* self.server_discovery(false): the cached response, or git-lfs-authenticate
Miss_discovery(found) ==
    /\ apc = "discovery"
    /\ IF server_discovery # None
       THEN /\ apc' = "batch"
            /\ UNCHANGED <<server_discovery, result, calls>>
       ELSE IF operation = "none" \/ remote = "none"
       THEN /\ download_fail(OtherError("uninitialized"))
            /\ UNCHANGED <<server_discovery, calls>>
       ELSE IF found
       THEN /\ server_discovery' =
                  Some(discovery_response(FALSE))
            /\ apc' = "batch"
            /\ calls' = Append(calls, discovery_call(FALSE, "ok"))
            /\ UNCHANGED result
       ELSE /\ download_fail(OtherError("server_discovery"))
            /\ calls' = Append(calls, discovery_call(FALSE, "error"))
            /\ UNCHANGED server_discovery
    /\ UNCHANGED <<cache, operation, remote, logs, stdout, request,
                   oid, tpc, gpc, body, bytes_so_far, bytes_since_last, store, hit>>
    /\ UNCHANGED chanVars

BatchOutcomes == {"ok", "unauthorized", "status", "transport"}
\* the statuses a server answers with that are no success and not 401
ErrorStatuses == {404, 503}
\* the status of an answer: none (0) if the request failed in transport
answer_status(outcome, status) ==
    CASE outcome = "ok" -> 200
      [] outcome = "unauthorized" -> 401
      [] outcome \in {"status", "error"} -> status
      [] OTHER -> 0
\* a request of the server path and how it was answered
server_call(call, outcome, status) ==
    [call |-> call, outcome |-> outcome, status |-> answer_status(outcome, status)]

\* git_lfs::batch, and the match on its error
Miss_batch(outcome, status) ==
    /\ apc = "batch"
    /\ CASE outcome = "ok" -> apc' = "object" /\ UNCHANGED result
         [] outcome = "unauthorized" -> apc' = "rediscovery" /\ UNCHANGED result
         [] outcome = "status" -> download_fail(LfsError(status, "batch"))
         [] OTHER -> download_fail(OtherError("batch"))
    /\ UNCHANGED <<cache, operation, remote, server_discovery, logs, stdout, request,
                   oid, tpc, gpc, body, bytes_so_far, bytes_since_last, store, hit>>
    /\ UNCHANGED chanVars
    /\ calls' = Append(calls, server_call("batch", outcome, status))

\* mutant: the cached discovery is taken out before it is derived again
Miss_rediscovery_forget(found) ==
    /\ apc = "rediscovery"
    /\ IF operation = "none" \/ remote = "none"
       THEN /\ download_fail(OtherError("uninitialized"))
            /\ UNCHANGED <<server_discovery, calls>>
       ELSE IF found
       THEN /\ server_discovery' =
                  Some(discovery_response(TRUE))
            /\ apc' = "batch_again"
            /\ calls' = Append(calls, discovery_call(TRUE, "ok"))
            /\ UNCHANGED result
       ELSE /\ download_fail(OtherError("server_discovery"))
            /\ calls' = Append(calls, discovery_call(TRUE, "error"))
            /\ server_discovery' = None
    /\ UNCHANGED <<cache, operation, remote, logs, stdout, request,
                   oid, tpc, gpc, body, bytes_so_far, bytes_since_last, store, hit>>
    /\ UNCHANGED chanVars

\* self.server_discovery(true) after a 401
Miss_rediscovery(found) ==
    /\ apc = "rediscovery"
    /\ IF operation = "none" \/ remote = "none"
       THEN /\ download_fail(OtherError("uninitialized"))
            /\ UNCHANGED <<server_discovery, calls>>
       ELSE IF found
       THEN /\ server_discovery' =
                  Some(discovery_response(TRUE))
            /\ apc' = "batch_again"
            /\ calls' = Append(calls, discovery_call(TRUE, "ok"))
            /\ UNCHANGED result
       ELSE /\ download_fail(OtherError("server_discovery"))
            /\ calls' = Append(calls, discovery_call(TRUE, "error"))
            /\ UNCHANGED server_discovery
    /\ UNCHANGED <<cache, operation, remote, logs, stdout, request,
                   oid, tpc, gpc, body, bytes_so_far, bytes_since_last, store, hit>>
    /\ UNCHANGED chanVars

\* mutant: every 401 re-derives the discovery and retries
Miss_batch_again_rederive(outcome, status) ==
    /\ apc = "batch_again"
    /\ CASE outcome = "ok" -> apc' = "object" /\ UNCHANGED result
         [] outcome = "unauthorized" -> apc' = "rediscovery" /\ UNCHANGED result
         [] outcome = "status" -> download_fail(LfsError(status, "batch"))
         [] OTHER -> download_fail(OtherError("batch"))
    /\ UNCHANGED <<cache, operation, remote, server_discovery, logs, stdout, request,
                   oid, tpc, gpc, body, bytes_so_far, bytes_since_last, store, hit>>
    /\ UNCHANGED chanVars
    /\ calls' = Append(calls, server_call("batch", outcome, status))

\* the second git_lfs::batch: its error is returned as it is
Miss_batch_again(outcome, status) ==
    /\ apc = "batch_again"
    /\ CASE outcome = "ok" -> apc' = "object" /\ UNCHANGED result
         [] outcome = "unauthorized" -> download_fail(LfsError(401, "batch"))
         [] outcome = "status" -> download_fail(LfsError(status, "batch"))
         [] OTHER -> download_fail(OtherError("batch"))
    /\ UNCHANGED <<cache, operation, remote, server_discovery, logs, stdout, request,
                   oid, tpc, gpc, body, bytes_so_far, bytes_since_last, store, hit>>
    /\ UNCHANGED chanVars
    /\ calls' = Append(calls, server_call("batch", outcome, status))

\* response::Object { oid, inner }: inner is Actions with or without a
\* download action, or Error with its code
BatchObject(o, inner, code) == [oid |-> o, inner |-> inner, code |-> code]
BatchObjects ==
    {BatchObject(o, inner, 0) : o \in Oids, inner \in {"download", "no_action"}}
    \cup {BatchObject(o, "error", code) : o \in Oids, code \in ErrorStatuses}
\* Response.objects: the server answers with any objects for any oids
BatchResponses ==
    {<<>>} \cup {<<a>> : a \in BatchObjects} \cup {<<a, b>> : a, b \in BatchObjects}

\* mutant: the first object of the response is taken, whatever its oid
find_object_first(objects, o) ==
    IF objects = <<>> THEN None ELSE Some(objects[1])

\* response.objects.into_iter().find(|object| object.oid == oid)
find_object(objects, o) ==
    LET matching == {i \in 1..Len(objects) : objects[i].oid = o}
    IN IF matching = {} THEN None
       ELSE Some(objects[CHOOSE i \in matching : \A j \in matching : i <= j])

\* the call that found (or missed) the object in the batch response
object_call(objects, outcome, status) ==
    [call |-> "object", outcome |-> outcome, status |-> answer_status(outcome, status),
     objects |-> objects]

\* find the object in the batch response and match on object.inner
Miss_object(objects) ==
    /\ apc = "object"
    /\ LET object == find_object(objects, oid)
           outcome == IF object = None THEN "missing" ELSE object[1].inner
           status == IF object = None THEN 0 ELSE object[1].code
       IN /\ CASE outcome = "download" -> apc' = "get" /\ UNCHANGED result
               [] outcome = "no_action" -> download_fail(OtherError("missing action"))
               [] outcome = "error" -> download_fail(LfsError(status, "object"))
               [] OTHER -> download_fail(OtherError("missing object"))
          /\ calls' = Append(calls, object_call(objects, outcome, status))
    /\ UNCHANGED <<cache, operation, remote, server_discovery, logs, stdout, request,
                   oid, tpc, gpc, body, bytes_so_far, bytes_since_last, store, hit>>
    /\ UNCHANGED chanVars

\* self.client.request(request) fails, or the status is no success
Miss_get_error(transport, status) ==
    /\ apc = "get"
    /\ download_fail(IF transport THEN OtherError("get") ELSE LfsError(status, "get"))
    /\ UNCHANGED <<cache, operation, remote, server_discovery, logs, stdout, request,
                   oid, tpc, gpc, body, bytes_so_far, bytes_since_last, store, hit>>
    /\ UNCHANGED chanVars
    /\ calls' = Append(calls, server_call("get", IF transport THEN "transport" ELSE "status",
                                          status))

\* the status is a success: channel::new_in, and the three futures are built;
\* without a cache the second future is Ok at once
Miss_get_success(b) ==
    /\ apc = "get"
    /\ download_new_in(temp, dir, keptFile)
    /\ body' = b
    /\ gpc' = "body"
    /\ tpc' = [get |-> "run", check |-> IF cache = "none" THEN "ok" ELSE "run",
               progress |-> "run"]
    /\ bytes_so_far' = 0
    /\ bytes_since_last' = 0
    /\ apc' = "miss_init"
    /\ UNCHANGED <<cache, operation, remote, server_discovery, logs, stdout, request,
                   oid, result, store, hit>>
    /\ calls' = <<>>

\* ---------------------------------------------- the parts that do not run
\* the calls of the filesystem cache: two of put for the same oid
Puts == {1, 2}

\* no call of the filesystem cache was made
NoFs ==
    /\ put = [p \in Puts |-> [pc |-> "call", taken |-> <<>>, buf |-> <<>>, file |-> <<>>]]
    /\ root = [entry |-> None, tmp |-> {}]
    /\ getter = [pc |-> "call", handle |-> None, out |-> <<>>]

\* a parsed url::Url; a line that is no URL has no scheme
Url(scheme, username, host, port, path) ==
    [scheme |-> scheme, username |-> username, host |-> host, port |-> port, path |-> path]
NoUrl == Url("", "", "", "", "")

\* server_discovery is not called
NoDiscovery ==
    /\ env = [toplevel |-> FALSE,
              lfsconfig |-> [lfsurl |-> None, url |-> None],
              config |-> [lfsurl |-> None, url |-> None],
              remote_url |-> None,
              remote |-> NoUrl,
              extraheader |-> None,
              credential |-> None,
              ssh |-> None]
    /\ response = None

\* ------------------------------------------- the channel driven by any client
InitChannel ==
    /\ chan = "fresh"
    /\ temp = 1
    /\ dir = {1}
    /\ keptFile = <<>>
    /\ file = <<>>
    /\ wbuf = <<>>
    /\ state = [size |-> 0, eof |-> FALSE, gen |-> 0]
    /\ wpc = "none"
    /\ wdata = <<>>
    /\ rpc = [r \in Readers |-> "unopened"]
    /\ pos = [r \in Readers |-> 0]
    /\ seen = [r \in Readers |-> TRUE]
    /\ rgen = [r \in Readers |-> 0]
    /\ out = [r \in Readers |-> <<>>]
    /\ rhit = [r \in Readers |-> FALSE]
    /\ written = <<>>
    /\ prewritten = <<>>
    /\ nwrites = 0
    /\ nresets = 0

\* the next n bytes a client writes: tagged with their position in the stream
Fresh(n) == [i \in 1..n |-> Len(prewritten) + Len(written) + i]

\* when the client opens each of its streams
InWindow(r) ==
    CASE r = "body_0" -> nwrites = 0 /\ nresets = 0 /\ WriterAlive
      [] r = "body_1" -> nwrites > 0 /\ WriterAlive
      [] OTHER -> Closed \/ nresets > 0

\* the channel on its own: no transfer agent runs
NoAgent ==
    /\ apc = "off"
    /\ cache = "none"
    /\ operation = "none"
    /\ remote = "none"
    /\ server_discovery = None
    /\ logs = <<>>
    /\ stdout = <<>>
    /\ request = [event |-> "none", oid |-> <<>>]
    /\ oid = <<>>
    /\ tpc = [get |-> "run", check |-> "run", progress |-> "run"]
    /\ gpc = "request"
    /\ body = <<>>
    /\ bytes_so_far = 0
    /\ bytes_since_last = 0
    /\ result = Err(OtherError("pending"))
    /\ store = {}
    /\ hit = "none"
    /\ calls = <<>>

Init == InitChannel /\ NoAgent /\ NoFs /\ NoDiscovery

\* one writer task and any number of reader tasks, as in channel/tests.rs
Next ==
    \/ Channel_init /\ UNCHANGED <<agentVars, fsVars, sdVars>>
    \/ \E n \in ChunkLens : Writer_write_all(Fresh(n)) /\ UNCHANGED <<agentVars, fsVars, sdVars>>
    \/ Writer_write_publish /\ UNCHANGED <<agentVars, fsVars, sdVars>>
    \/ File_flush_some /\ UNCHANGED <<agentVars, fsVars, sdVars>>
    \/ Writer_finish_flush /\ UNCHANGED <<agentVars, fsVars, sdVars>>
    \/ Writer_finish_publish /\ UNCHANGED <<agentVars, fsVars, sdVars>>
    \/ Writer_drop /\ UNCHANGED <<agentVars, fsVars, sdVars>>
    \/ Channel_keep /\ UNCHANGED <<agentVars, fsVars, sdVars>>
    \/ Channel_drop /\ UNCHANGED <<agentVars, fsVars, sdVars>>
    \/ \E r \in Readers : InWindow(r) /\ Reader_stream(r) /\ UNCHANGED <<agentVars, fsVars, sdVars>>
    \/ \E r \in Readers : Reader_wait_for(r) /\ UNCHANGED <<agentVars, fsVars, sdVars>>
    \/ \E r \in Readers : Reader_fill_buf(r) /\ UNCHANGED <<agentVars, fsVars, sdVars>>
    \/ \E r \in Readers : Reader_changed(r) /\ UNCHANGED <<agentVars, fsVars, sdVars>>

Spec == Init /\ [][Next]_vars

\* one poll of a stream by the task that consumes it
Reader_poll(r) ==
    /\ Reader_wait_for(r) \/ Reader_fill_buf(r) \/ Reader_changed(r)
    /\ UNCHANGED <<agentVars, fsVars, sdVars>>

\* the channel with every open stream polled again and again: a stream
\* that can step is not left unpolled for ever
SpecPolled == Init /\ [][Next]_vars /\ \A r \in Readers : WF_vars(Reader_poll(r))

\* the clients of test_reset: the writer writes, resets and finishes, the
\* channel is kept
NextReset ==
    \/ Channel_init /\ UNCHANGED <<agentVars, fsVars, sdVars>>
    \/ \E n \in ChunkLens : Writer_write_all(Fresh(n)) /\ UNCHANGED <<agentVars, fsVars, sdVars>>
    \/ Writer_write_publish /\ UNCHANGED <<agentVars, fsVars, sdVars>>
    \/ File_flush_some /\ UNCHANGED <<agentVars, fsVars, sdVars>>
    \/ Writer_finish_flush /\ UNCHANGED <<agentVars, fsVars, sdVars>>
    \/ Writer_finish_publish /\ UNCHANGED <<agentVars, fsVars, sdVars>>
    \/ Channel_keep /\ UNCHANGED <<agentVars, fsVars, sdVars>>
    \/ \E r \in Readers : InWindow(r) /\ Reader_stream(r) /\ UNCHANGED <<agentVars, fsVars, sdVars>>
    \/ \E r \in Readers : Reader_wait_for(r) /\ UNCHANGED <<agentVars, fsVars, sdVars>>
    \/ \E r \in Readers : Reader_fill_buf(r) /\ UNCHANGED <<agentVars, fsVars, sdVars>>
    \/ \E r \in Readers : Reader_changed(r) /\ UNCHANGED <<agentVars, fsVars, sdVars>>
    \/ Writer_reset_flush /\ UNCHANGED <<agentVars, fsVars, sdVars>>
    \/ Writer_reset_truncate /\ UNCHANGED <<agentVars, fsVars, sdVars>>
    \/ Writer_reset_publish /\ UNCHANGED <<agentVars, fsVars, sdVars>>

SpecReset == Init /\ [][NextReset]_vars

\* ------------------------------------------------- the transfer agent runs
\* google_cloud_storage streams as filesystem does; http resets and retries
Caches == {"none", "filesystem", "http"}

\* after Context::new: no request read, nothing in lfs/tmp
InitAgent ==
    /\ chan = "none"
    /\ temp = 0
    /\ dir = {}
    /\ keptFile = <<>>
    /\ file = <<>>
    /\ wbuf = <<>>
    /\ state = [size |-> 0, eof |-> FALSE, gen |-> 0]
    /\ wpc = "none"
    /\ wdata = <<>>
    /\ rpc = [r \in Readers |-> "unopened"]
    /\ pos = [r \in Readers |-> 0]
    /\ seen = [r \in Readers |-> TRUE]
    /\ rgen = [r \in Readers |-> 0]
    /\ out = [r \in Readers |-> <<>>]
    /\ rhit = [r \in Readers |-> FALSE]
    /\ written = <<>>
    /\ prewritten = <<>>
    /\ nwrites = 0
    /\ nresets = 0
    /\ apc = "read"
    /\ cache \in Caches
    /\ operation = "none"
    /\ remote = "none"
    /\ server_discovery = None
    /\ logs = <<>>
    /\ stdout = <<>>
    /\ request = [event |-> "none", oid |-> <<>>]
    /\ oid = <<>>
    /\ tpc = [get |-> "run", check |-> "run", progress |-> "run"]
    /\ gpc = "request"
    /\ body = <<>>
    /\ bytes_so_far = 0
    /\ bytes_since_last = 0
    /\ result = Err(OtherError("pending"))
    /\ store = {}
    /\ hit = "none"
    /\ calls = <<>>
    /\ NoFs /\ NoDiscovery

\* the main loop, one request at a time, and the steps of a download
NextAgent ==
    \/ \E op \in Operations, rm \in Remotes : Main_init(op, rm) /\ UNCHANGED <<fsVars, sdVars>>
    \/ \E o \in Oids : Main_upload(o) /\ UNCHANGED <<fsVars, sdVars>>
    \/ \E o \in Oids : Main_download(o) /\ UNCHANGED <<fsVars, sdVars>>
    \/ Main_terminate /\ UNCHANGED <<fsVars, sdVars>>
    \/ Main_eof /\ UNCHANGED <<fsVars, sdVars>>
    \/ Main_bad_line /\ UNCHANGED <<fsVars, sdVars>>
    \/ Download_channel_init /\ UNCHANGED <<fsVars, sdVars>>
    \/ Download_stream_check /\ UNCHANGED <<fsVars, sdVars>>
    \/ Download_stream_progress /\ UNCHANGED <<fsVars, sdVars>>
    \/ Cache_get_error /\ UNCHANGED <<fsVars, sdVars>>
    \/ \E b \in Bodies : Cache_get_response(b) /\ UNCHANGED <<fsVars, sdVars>>
    \/ Cache_get_reset_flush /\ UNCHANGED <<fsVars, sdVars>>
    \/ Cache_get_reset_truncate /\ UNCHANGED <<fsVars, sdVars>>
    \/ Cache_get_reset_publish /\ UNCHANGED <<fsVars, sdVars>>
    \/ \E n \in ChunkLens : Body_write_all(n) /\ UNCHANGED <<fsVars, sdVars>>
    \/ Body_write_publish /\ UNCHANGED <<fsVars, sdVars>>
    \/ Body_flush_some /\ UNCHANGED <<fsVars, sdVars>>
    \/ Body_frame_error /\ UNCHANGED <<fsVars, sdVars>>
    \/ Body_finish_flush /\ UNCHANGED <<fsVars, sdVars>>
    \/ Body_finish_publish /\ UNCHANGED <<fsVars, sdVars>>
    \/ Check_wait_for /\ UNCHANGED <<fsVars, sdVars>>
    \/ Check_fill_buf /\ UNCHANGED <<fsVars, sdVars>>
    \/ Check_changed /\ UNCHANGED <<fsVars, sdVars>>
    \/ \E status \in {0} \cup ErrorStatuses : Cache_put_error(status) /\ UNCHANGED <<fsVars, sdVars>>
    \/ Progress_wait_for /\ UNCHANGED <<fsVars, sdVars>>
    \/ Progress_fill_buf /\ UNCHANGED <<fsVars, sdVars>>
    \/ Progress_changed /\ UNCHANGED <<fsVars, sdVars>>
    \/ Hit_join_err /\ UNCHANGED <<fsVars, sdVars>>
    \/ Download_join_ok /\ UNCHANGED <<fsVars, sdVars>>
    \/ Miss_join_err /\ UNCHANGED <<fsVars, sdVars>>
    \/ Download_log /\ UNCHANGED <<fsVars, sdVars>>
    \/ Main_complete /\ UNCHANGED <<fsVars, sdVars>>
    \/ \E found \in BOOLEAN : Miss_discovery(found) /\ UNCHANGED <<fsVars, sdVars>>
    \/ \E outcome \in BatchOutcomes, status \in ErrorStatuses : Miss_batch(outcome, status) /\ UNCHANGED <<fsVars, sdVars>>
    \/ \E found \in BOOLEAN : Miss_rediscovery(found) /\ UNCHANGED <<fsVars, sdVars>>
    \/ \E outcome \in BatchOutcomes, status \in ErrorStatuses : Miss_batch_again(outcome, status) /\ UNCHANGED <<fsVars, sdVars>>
    \/ \E objects \in BatchResponses : Miss_object(objects) /\ UNCHANGED <<fsVars, sdVars>>
    \/ \E transport \in BOOLEAN, status \in ErrorStatuses : Miss_get_error(transport, status) /\ UNCHANGED <<fsVars, sdVars>>
    \/ \E b \in Bodies : Miss_get_success(b) /\ UNCHANGED <<fsVars, sdVars>>

SpecAgent == InitAgent /\ [][NextAgent]_vars

\* ------------------------------------------- the http cache (cache/http.rs)
\* the backend on its own: one call of Cache::get, or of Cache::put, on an
\* open channel.  The writer of get is the one of the channel; the channel
\* put reads is written by its source.  calls records the attempts.
MaxAttempts == 3
\* the 2xx responses of one get: each of them resets the writer
MaxHttpResets == 2

Statuses == {200, 404, 408, 503}
is_success(s) == s \in 200..299
is_server_error(s) == s \in 500..599
REQUEST_TIMEOUT == 408

\* the body of a response that is no success, and format!("{body:?}") of it
ErrorBody == "not found"
DebugBytes(s) == "b\"" \o s \o "\""

\* what one run of the retried closure meets: the request cannot be built,
\* client.request fails, a response arrives, or reading its body fails
Attempts ==
    {[kind |-> k, status |-> 0] : k \in {"construction", "transport"}}
    \cup {[kind |-> "response", status |-> s] : s \in Statuses}
    \cup {[kind |-> "body", status |-> 404]}

\* mutant: only server errors are worth another attempt
transient_status_server_only(s) == is_server_error(s)

\* the class of a response that is no success
transient_status(s) == s = REQUEST_TIMEOUT \/ is_server_error(s)

\* the backoff::Error of an attempt that is no success
attempt_error(a) ==
    CASE a.kind = "construction" ->
            [error |-> OtherError("construction"), transient |-> FALSE]
      [] a.kind = "transport" ->
            [error |-> OtherError("transport"), transient |-> TRUE]
      [] a.kind = "body" ->
            [error |-> OtherError("body"), transient |-> TRUE]
      [] OTHER ->
            [error |-> LfsError(a.status, DebugBytes(ErrorBody)),
             transient |-> transient_status(a.status)]

\* mutant: the frames of a 2xx response are written without writer.reset()
Http_get_attempt_noreset(a, b) ==
    /\ apc = "http_get" /\ tpc.get = "run" /\ gpc = "request"
    /\ Len(calls) < MaxAttempts
    /\ calls' = Append(calls, a)
    /\ IF a.kind = "response" /\ is_success(a.status)
       THEN /\ nresets < MaxHttpResets
            /\ Len(prewritten) + Len(written) + Len(b) <= MaxBytes
            /\ body' = b
            /\ gpc' = "body"
            /\ UNCHANGED <<tpc, result>>
            /\ UNCHANGED chanVars
       ELSE /\ b = <<>>
            /\ body' = <<>>
            /\ result' = Err(attempt_error(a).error)
            /\ IF attempt_error(a).transient
               THEN /\ UNCHANGED <<tpc, gpc>>
                    /\ UNCHANGED chanVars
               ELSE /\ tpc' = [tpc EXCEPT !.get = "err"]
                    /\ gpc' = "returned"
                    /\ Writer_drop
    /\ UNCHANGED <<apc, cache, operation, remote, server_discovery, logs, stdout, request,
                   oid, bytes_so_far, bytes_since_last, store, hit>>

\* one run of the closure of Cache::get up to the response: a success goes
\* on to writer.reset() and the frames, a transient error to the next
\* attempt, a permanent error ends retry; get returns it and drops the writer
Http_get_attempt(a, b) ==
    /\ apc = "http_get" /\ tpc.get = "run" /\ gpc = "request"
    /\ Len(calls) < MaxAttempts
    /\ calls' = Append(calls, a)
    /\ IF a.kind = "response" /\ is_success(a.status)
       THEN /\ nresets < MaxHttpResets
            /\ Len(prewritten) + Len(written) + Len(b) <= MaxBytes
            /\ body' = b
            /\ gpc' = "reset"
            /\ UNCHANGED <<tpc, result>>
            /\ UNCHANGED chanVars
       ELSE /\ b = <<>>
            /\ body' = <<>>
            /\ result' = Err(attempt_error(a).error)
            /\ IF attempt_error(a).transient
               THEN /\ UNCHANGED <<tpc, gpc>>
                    /\ UNCHANGED chanVars
               ELSE /\ tpc' = [tpc EXCEPT !.get = "err"]
                    /\ gpc' = "returned"
                    /\ Writer_drop
    /\ UNCHANGED <<apc, cache, operation, remote, server_discovery, logs, stdout, request,
                   oid, bytes_so_far, bytes_since_last, store, hit>>

\* body.frame() fails after the response was a success: transient
Http_get_frame_error ==
    /\ apc = "http_get" /\ tpc.get = "run" /\ gpc = "body" /\ wpc = "idle"
    /\ calls' = [calls EXCEPT ![Len(calls)] = [kind |-> "body", status |-> @.status]]
    /\ result' = Err(attempt_error(calls'[Len(calls)]).error)
    /\ body' = <<>>
    /\ gpc' = "request"
    /\ UNCHANGED <<apc, cache, operation, remote, server_discovery, logs, stdout, request,
                   oid, tpc, bytes_so_far, bytes_since_last, store, hit>>
    /\ UNCHANGED chanVars

\* ExponentialBackoff::default(): once max_elapsed_time has passed there is
\* no next backoff and retry returns the error of the last attempt
Http_get_give_up ==
    /\ apc = "http_get" /\ tpc.get = "run" /\ gpc = "request"
    /\ calls # <<>>
    /\ tpc' = [tpc EXCEPT !.get = "err"]
    /\ gpc' = "returned"
    /\ Writer_drop
    /\ UNCHANGED <<apc, cache, operation, remote, server_discovery, logs, stdout, request,
                   oid, body, bytes_so_far, bytes_since_last, result, store, hit, calls>>

\* the stream of an attempt of put is dropped with the request
drop_stream(r) ==
    /\ rpc' = [rpc EXCEPT ![r] = "unopened"]
    /\ pos' = [pos EXCEPT ![r] = 0]
    /\ seen' = [seen EXCEPT ![r] = TRUE]
    /\ rgen' = [rgen EXCEPT ![r] = 0]
    /\ out' = [out EXCEPT ![r] = <<>>]
    /\ rhit' = [rhit EXCEPT ![r] = FALSE]
    /\ UNCHANGED <<chan, temp, dir, keptFile, file, wbuf, state, wpc, wdata, written,
                   prewritten, nwrites, nresets>>

\* one run of the closure of Cache::put up to client.request: the request
\* is built around a new stream of the reader, or cannot be built
Http_put_request(built) ==
    /\ apc = "http_put" /\ tpc.check = "run" /\ gpc = "request"
    /\ Len(calls) < MaxAttempts
    /\ IF built
       THEN /\ Reader_stream("body_0")
            /\ gpc' = "send"
            /\ UNCHANGED <<tpc, result, calls>>
       ELSE /\ calls' = Append(calls, [kind |-> "construction", status |-> 0])
            /\ result' = Err(attempt_error(calls'[Len(calls')]).error)
            /\ tpc' = [tpc EXCEPT !.check = "err"]
            /\ gpc' = "returned"
            /\ UNCHANGED chanVars
    /\ UNCHANGED <<apc, cache, operation, remote, server_discovery, logs, stdout, request,
                   oid, body, bytes_so_far, bytes_since_last, store, hit>>

\* client.request polls the body of the request: one step of its stream
Http_put_send(step) ==
    /\ apc = "http_put" /\ tpc.check = "run" /\ gpc = "send"
    /\ step
    /\ UNCHANGED agentVars

\* client.request ends: it fails, or a response arrives and is read.  An
\* endpoint that answers a success has taken the whole body.
Http_put_response(a) ==
    /\ apc = "http_put" /\ tpc.check = "run" /\ gpc = "send"
    /\ a.kind # "construction"
    /\ calls' = Append(calls, a)
    /\ IF a.kind = "response" /\ is_success(a.status)
       THEN /\ rpc["body_0"] = "done"
            /\ store' = {e \in store : e[1] # oid} \cup {<<oid, out["body_0"]>>}
            /\ result' = Ok(0)
            /\ tpc' = [tpc EXCEPT !.check = "ok"]
            /\ gpc' = "returned"
            /\ UNCHANGED chanVars
       ELSE /\ result' = Err(attempt_error(a).error)
            /\ store' = store
            /\ drop_stream("body_0")
            /\ IF attempt_error(a).transient
               THEN /\ gpc' = "request"
                    /\ UNCHANGED tpc
               ELSE /\ gpc' = "returned"
                    /\ tpc' = [tpc EXCEPT !.check = "err"]
    /\ UNCHANGED <<apc, cache, operation, remote, server_discovery, logs, stdout, request,
                   oid, body, bytes_so_far, bytes_since_last, hit>>

\* no next backoff: put returns the error of the last attempt
Http_put_give_up ==
    /\ apc = "http_put" /\ tpc.check = "run" /\ gpc = "request"
    /\ calls # <<>>
    /\ tpc' = [tpc EXCEPT !.check = "err"]
    /\ gpc' = "returned"
    /\ UNCHANGED <<apc, cache, operation, remote, server_discovery, logs, stdout, request,
                   oid, body, bytes_so_far, bytes_since_last, result, store, hit, calls>>
    /\ UNCHANGED chanVars

\* the client of get opens a stream of the channel at any time while get
\* runs: before the first attempt, between attempts, while the body arrives.
\* Streams do not affect each other, so one stands for each of them.
HttpWindow(r) == apc = "http_get" /\ tpc.get = "run" /\ r = "body_0"

InitHttp ==
    /\ InitChannel
    /\ apc \in {"http_get", "http_put"}
    /\ cache = "http"
    /\ operation = "none"
    /\ remote = "none"
    /\ server_discovery = None
    /\ logs = <<>>
    /\ stdout = <<>>
    /\ request = [event |-> "none", oid |-> <<>>]
    /\ oid = Sha256Hex([i \in 1..MaxBytes |-> i])
    /\ tpc = [get |-> "run", check |-> "run", progress |-> "run"]
    /\ gpc = "request"
    /\ body = <<>>
    /\ bytes_so_far = 0
    /\ bytes_since_last = 0
    /\ result = Err(OtherError("pending"))
    /\ store = {}
    /\ hit = "none"
    /\ calls = <<>>
    /\ NoFs /\ NoDiscovery

NextHttp ==
    \/ Channel_init /\ UNCHANGED <<agentVars, fsVars, sdVars>>
    \/ \E a \in Attempts, b \in Bodies : chan = "open" /\ Http_get_attempt(a, b) /\ UNCHANGED <<fsVars, sdVars>>
    \/ Cache_get_reset_flush /\ UNCHANGED <<fsVars, sdVars>>
    \/ Cache_get_reset_truncate /\ UNCHANGED <<fsVars, sdVars>>
    \/ Cache_get_reset_publish /\ UNCHANGED <<fsVars, sdVars>>
    \/ \E n \in ChunkLens : Body_write_all(n) /\ UNCHANGED <<fsVars, sdVars>>
    \/ Body_write_publish /\ UNCHANGED <<fsVars, sdVars>>
    \/ Body_flush_some /\ UNCHANGED <<fsVars, sdVars>>
    \/ Http_get_frame_error /\ UNCHANGED <<fsVars, sdVars>>
    \/ Body_finish_flush /\ UNCHANGED <<fsVars, sdVars>>
    \/ Body_finish_publish /\ UNCHANGED <<fsVars, sdVars>>
    \/ Http_get_give_up /\ UNCHANGED <<fsVars, sdVars>>
    \/ \E r \in Readers : HttpWindow(r) /\ Reader_stream(r) /\ UNCHANGED <<agentVars, fsVars, sdVars>>
    \/ \E r \in Readers : apc = "http_get" /\ Reader_wait_for(r) /\ UNCHANGED <<agentVars, fsVars, sdVars>>
    \/ \E r \in Readers : apc = "http_get" /\ Reader_fill_buf(r) /\ UNCHANGED <<agentVars, fsVars, sdVars>>
    \/ \E r \in Readers : apc = "http_get" /\ Reader_changed(r) /\ UNCHANGED <<agentVars, fsVars, sdVars>>
    \/ \E n \in ChunkLens : apc = "http_put" /\ Writer_write_all(Fresh(n)) /\ UNCHANGED <<agentVars, fsVars, sdVars>>
    \/ apc = "http_put" /\ Writer_write_publish /\ UNCHANGED <<agentVars, fsVars, sdVars>>
    \/ apc = "http_put" /\ File_flush_some /\ UNCHANGED <<agentVars, fsVars, sdVars>>
    \/ apc = "http_put" /\ Writer_finish_flush /\ UNCHANGED <<agentVars, fsVars, sdVars>>
    \/ apc = "http_put" /\ Writer_finish_publish /\ UNCHANGED <<agentVars, fsVars, sdVars>>
    \/ \E built \in BOOLEAN : chan = "open" /\ Http_put_request(built) /\ UNCHANGED <<fsVars, sdVars>>
    \/ Http_put_send(Reader_wait_for("body_0")) /\ UNCHANGED <<fsVars, sdVars>>
    \/ Http_put_send(Reader_fill_buf("body_0")) /\ UNCHANGED <<fsVars, sdVars>>
    \/ Http_put_send(Reader_changed("body_0")) /\ UNCHANGED <<fsVars, sdVars>>
    \/ \E a \in Attempts : Http_put_response(a) /\ UNCHANGED <<fsVars, sdVars>>
    \/ Http_put_give_up /\ UNCHANGED <<fsVars, sdVars>>

SpecHttp == InitHttp /\ [][NextHttp]_vars

\* --------------------------------- the filesystem cache (cache/filesystem.rs)
\* Two calls of Cache::put for one oid and calls of Cache::get for it run
\* side by side.  The stream of each put yields bytes tagged with the call
\* and their position, so that a mixed or cut entry is visible.
FsFresh(p, n) == [i \in 1..n |-> <<p, Len(put[p].taken) + i>>]

\* mutant: the file of put is created at path(oid) itself
writer_new_at_path(p) == root' = [root EXCEPT !.entry = Some(p)]

\* writer::new_in(&parent): File::create of a new name, a Uuid, in parent
writer_new_in(p) == root' = [root EXCEPT !.tmp = @ \cup {p}]

\* Cache::put up to its loop: create_dir_all(parent), writer::new_in(&parent)
Fs_put_new_in(p) ==
    /\ put[p].pc = "call"
    /\ writer_new_in(p)
    /\ put' = [put EXCEPT ![p].pc = "body"]
    /\ UNCHANGED getter

\* body.try_next() yields data: writer.write(&data) takes it into the BufWriter
Fs_put_write(p, n) ==
    /\ put[p].pc = "body"
    /\ Len(put[p].taken) + n <= MaxBytes
    /\ put' = [put EXCEPT ![p].taken = @ \o FsFresh(p, n),
                          ![p].buf = @ \o FsFresh(p, n)]
    /\ UNCHANGED <<root, getter>>

\* the BufWriter spills: a non-empty prefix of its buffer reaches the file
Fs_put_flush_some(p) ==
    /\ put[p].pc = "body"
    /\ \E k \in 1..Len(put[p].buf) :
          put' = [put EXCEPT ![p].file = @ \o SubSeq(put[p].buf, 1, k),
                             ![p].buf = SubSeq(@, k + 1, Len(@))]
    /\ UNCHANGED <<root, getter>>

\* body.try_next() or writer.write() fails: `?` drops the Writer, whose
\* Drop removes the file it created
Fs_put_fail(p) ==
    /\ put[p].pc = "body"
    /\ put' = [put EXCEPT ![p].pc = "err", ![p].buf = <<>>]
    /\ root' = [root EXCEPT !.tmp = @ \ {p}]
    /\ UNCHANGED getter

\* the stream has ended: writer.finish() flushes and hands out the path; a
\* flush that fails drops the Writer
Fs_put_finish(p, flushed) ==
    /\ put[p].pc = "body"
    /\ IF flushed
       THEN /\ put' = [put EXCEPT ![p].pc = "rename", ![p].file = @ \o put[p].buf,
                                  ![p].buf = <<>>]
            /\ UNCHANGED root
       ELSE /\ put' = [put EXCEPT ![p].pc = "err", ![p].buf = <<>>]
            /\ root' = [root EXCEPT !.tmp = @ \ {p}]
    /\ UNCHANGED getter

\* fs::rename(writer.finish().await?, path): the name path(oid) is given to
\* the file of this call; a rename that fails changes nothing
Fs_put_rename(p, renamed) ==
    /\ put[p].pc = "rename"
    /\ IF renamed
       THEN /\ put' = [put EXCEPT ![p].pc = "ok"]
            /\ root' = [entry |-> Some(p), tmp |-> root.tmp \ {p}]
       ELSE /\ put' = [put EXCEPT ![p].pc = "err"]
            /\ UNCHANGED root
    /\ UNCHANGED getter

\* Cache::get, File::open(&path): the handle is on the file that has the name now
Fs_get_open ==
    /\ getter.pc = "call"
    /\ getter' = IF root.entry = None
                 THEN [getter EXCEPT !.pc = "err"]
                 ELSE [getter EXCEPT !.pc = "read", !.handle = root.entry]
    /\ UNCHANGED <<put, root>>

\* reader.fill_buf(): a block of what the file holds beyond the handle's
\* offset, or nothing, which ends the loop
Fs_get_fill_buf ==
    /\ getter.pc = "read"
    /\ LET content == put[getter.handle[1]].file
       IN IF Len(content) <= Len(getter.out)
          THEN getter' = [getter EXCEPT !.pc = "ok"]
          ELSE \E k \in 1..(Len(content) - Len(getter.out)) :
                  getter' = [getter EXCEPT !.out =
                               @ \o SubSeq(content, Len(@) + 1, Len(@) + k)]
    /\ UNCHANGED <<put, root>>

\* get has returned; it is called again
Fs_get_again ==
    /\ getter.pc \in {"ok", "err"}
    /\ getter' = [pc |-> "call", handle |-> None, out |-> <<>>]
    /\ UNCHANGED <<put, root>>

InitFs == InitChannel /\ NoAgent /\ NoFs /\ NoDiscovery

NextFs ==
    \/ \E p \in Puts : Fs_put_new_in(p) /\ UNCHANGED <<chanVars, agentVars, sdVars>>
    \/ \E p \in Puts, n \in ChunkLens : Fs_put_write(p, n) /\ UNCHANGED <<chanVars, agentVars, sdVars>>
    \/ \E p \in Puts : Fs_put_flush_some(p) /\ UNCHANGED <<chanVars, agentVars, sdVars>>
    \/ \E p \in Puts : Fs_put_fail(p) /\ UNCHANGED <<chanVars, agentVars, sdVars>>
    \/ \E p \in Puts, flushed \in BOOLEAN : Fs_put_finish(p, flushed) /\ UNCHANGED <<chanVars, agentVars, sdVars>>
    \/ \E p \in Puts, renamed \in BOOLEAN : Fs_put_rename(p, renamed) /\ UNCHANGED <<chanVars, agentVars, sdVars>>
    \/ Fs_get_open /\ UNCHANGED <<chanVars, agentVars, sdVars>>
    \/ Fs_get_fill_buf /\ UNCHANGED <<chanVars, agentVars, sdVars>>
    \/ Fs_get_again /\ UNCHANGED <<chanVars, agentVars, sdVars>>

SpecFs == InitFs /\ [][NextFs]_vars

\* ------------------------- endpoint discovery (git_lfs/server_discovery.rs)
\* server_discovery is a function of what git, the credential helper and the
\* ssh command answer; env holds those answers, response what it returned.
OkValue(v) == [ok |-> TRUE, value |-> Some(v), error |-> None]
ErrValue(message) == [ok |-> FALSE, value |-> None, error |-> Some(message)]

\* Url::to_string
to_string(u) ==
    u.scheme \o "://" \o (IF u.username = "" THEN "" ELSE u.username \o "@") \o u.host
    \o (IF u.port = "" THEN "" ELSE ":" \o u.port) \o u.path

ends_with(s, pat) ==
    Len(s) >= Len(pat) /\ SubSeq(s, Len(s) - Len(pat) + 1, Len(s)) = pat

\* str::trim_end_matches: the suffix is removed as often as it matches
RECURSIVE trim_end_matches(_, _)
trim_end_matches(s, pat) ==
    IF ends_with(s, pat) THEN trim_end_matches(SubSeq(s, 1, Len(s) - Len(pat)), pat) ELSE s

\* git::parse_url(&line)
parse_url(line) == IF line = NoUrl THEN ErrValue("parse") ELSE OkValue(line)

\* custom_configuration: the lines of remote.<remote>.lfsurl if git prints
\* that key, else those of lfs.url; exactly one line, which must be a URL
custom_configuration(location) ==
    LET lines == IF location.lfsurl # None THEN location.lfsurl
                 ELSE IF location.url # None THEN location.url
                 ELSE None
    IN IF lines = None THEN OkValue(None)
       ELSE IF Len(lines[1]) # 1 THEN ErrValue("multiple lines")
       ELSE IF ~parse_url(lines[1][1]).ok THEN parse_url(lines[1][1])
       ELSE OkValue(Some(lines[1][1]))

\* mutant: the standard configuration is asked before .lfsconfig
base_url_config_first(e) ==
    LET lfsconfig == IF e.toplevel THEN custom_configuration(e.lfsconfig)
                     ELSE ErrValue("toplevel")
        config == custom_configuration(e.config)
    IN IF config.ok /\ config.value[1] # None
       THEN OkValue([url |-> config.value[1][1], custom |-> TRUE])
       ELSE IF lfsconfig.ok /\ lfsconfig.value[1] # None
       THEN OkValue([url |-> lfsconfig.value[1][1], custom |-> TRUE])
       ELSE IF e.remote_url # None
       THEN OkValue([url |-> e.remote_url[1], custom |-> FALSE])
       ELSE IF ~parse_url(e.remote).ok THEN parse_url(e.remote)
       ELSE OkValue([url |-> e.remote, custom |-> FALSE])

\* server_discovery, the choice of (url, custom): .lfsconfig of the work
\* tree, the standard configuration, git remote get-url, the remote itself
base_url(e) ==
    LET lfsconfig == IF e.toplevel THEN custom_configuration(e.lfsconfig)
                     ELSE ErrValue("toplevel")
        config == custom_configuration(e.config)
    IN IF lfsconfig.ok /\ lfsconfig.value[1] # None
       THEN OkValue([url |-> lfsconfig.value[1][1], custom |-> TRUE])
       ELSE IF config.ok /\ config.value[1] # None
       THEN OkValue([url |-> config.value[1][1], custom |-> TRUE])
       ELSE IF e.remote_url # None
       THEN OkValue([url |-> e.remote_url[1], custom |-> FALSE])
       ELSE IF ~parse_url(e.remote).ok THEN parse_url(e.remote)
       ELSE OkValue([url |-> e.remote, custom |-> FALSE])

\* href.set_path(format!("{}.git", path.trim_end_matches(".git"))), then
\* path_segments_mut().push("info").push("lfs")
info_lfs(href) ==
    [href EXCEPT !.path = trim_end_matches(@, ".git") \o ".git" \o "/info" \o "/lfs"]

\* ---- strings
\* s.find(pat): the first position where pat starts, 0 if there is none
RECURSIVE find(_, _, _)
find(s, pat, i) ==
    IF i + Len(pat) - 1 > Len(s) THEN 0
    ELSE IF SubSeq(s, i, i + Len(pat) - 1) = pat THEN i
    ELSE find(s, pat, i + 1)
\* str::split_once
split_once(s, pat) ==
    LET i == find(s, pat, 1)
    IN IF i = 0 THEN None
       ELSE Some(<<SubSeq(s, 1, i - 1), SubSeq(s, i + Len(pat), Len(s))>>)
\* str::trim
RECURSIVE trim(_)
trim(s) ==
    IF s = "" THEN s
    ELSE IF SubSeq(s, 1, 1) = " " THEN trim(SubSeq(s, 2, Len(s)))
    ELSE IF SubSeq(s, Len(s), Len(s)) = " " THEN trim(SubSeq(s, 1, Len(s) - 1))
    ELSE s
UpperCase == "ABCDEFGHIJKLMNOPQRSTUVWXYZ"
LowerCase == "abcdefghijklmnopqrstuvwxyz"
RECURSIVE to_ascii_lowercase(_)
to_ascii_lowercase(s) ==
    IF s = "" THEN s
    ELSE LET c == SubSeq(s, 1, 1)
             i == find(UpperCase, c, 1)
         IN (IF i = 0 THEN c ELSE SubSeq(LowerCase, i, i))
            \o to_ascii_lowercase(SubSeq(s, 2, Len(s)))
\* HeaderName::try_from: a name is a token (here: not empty, no space) and is
\* kept in lower case
HeaderName(name) ==
    IF name = "" \/ find(name, " ", 1) # 0 THEN None ELSE Some(to_ascii_lowercase(name))
\* HeaderValue::try_from: the lines git prints hold no control characters
HeaderValue(value) == Some(value)
AUTHORIZATION == "authorization"

\* the header map: a set of (name, value)
\* Authorization::basic (the base64 of username:password is left readable)
Basic(username, password) == <<AUTHORIZATION, "Basic " \o username \o ":" \o password>>
contains_key(header, name) == \E h \in header : h[1] = name
\* HeaderMap::typed_insert: the values of the name are replaced
typed_insert(header, h) == {g \in header : g[1] # h[1]} \cup {h}

\* the filter_map over the lines of http.extraheader
header_line(line) ==
    LET pair == split_once(line, ":")
    IN IF pair = None THEN None
       ELSE LET name == HeaderName(trim(pair[1][1]))
                value == HeaderValue(trim(pair[1][2]))
            IN IF name = None \/ value = None THEN None
               ELSE Some(<<name[1], value[1]>>)
\* header.extend(...) on the empty map, if git config printed lines
extend_lines(lines) ==
    IF lines = None THEN {}
    ELSE {header_line(lines[1][i])[1] :
             i \in {j \in DOMAIN lines[1] : header_line(lines[1][j]) # None}}

\* what git config --get-urlmatch http.extraheader prints: nothing (it
\* fails), or lines
ExtraHeaders ==
    {None,
     Some(<<"Authorization: Basic qux:quux">>),
     Some(<<"X-Extra: 1">>),
     Some(<<"X-Extra: 1", "AUTHORIZATION:Bearer t">>),
     Some(<<"no colon", "bad name: 1">>)}
\* the header map of each answer of git config (computed once per answer)
ExtraHeaderMaps == [lines \in ExtraHeaders |-> extend_lines(lines)]
extraheader(e) == ExtraHeaderMaps[e.extraheader]

\* mutant: the credential helper is asked whenever authorization is wanted
credential_fill_asked_always(e, authorization) == authorization
\* git credential fill runs if authorization is wanted and the header map
\* has no Authorization yet
credential_fill_asked(e, authorization) ==
    authorization /\ ~contains_key(extraheader(e), AUTHORIZATION)

\* server_discovery, the arm of http and https
discovery_http(e, url, custom, authorization) ==
    LET header == IF /\ credential_fill_asked(e, authorization)
                     /\ e.credential # None
                     /\ e.credential[1].username # None
                     /\ e.credential[1].password # None
                  THEN typed_insert(extraheader(e),
                                    Basic(e.credential[1].username[1],
                                          e.credential[1].password[1]))
                  ELSE extraheader(e)
    IN OkValue([href |-> IF custom THEN url ELSE info_lfs(url), header |-> header])

\* server_discovery, the arm of ssh: git-lfs-authenticate over ssh answers
\* the response, or the href is derived with scheme https and no user
discovery_ssh(e, url, custom, op, authorization) ==
    IF authorization
    THEN IF e.ssh = None THEN ErrValue("ssh") ELSE OkValue(e.ssh[1])
    ELSE OkValue([href |-> IF custom THEN url
                            ELSE info_lfs(Url("https", "", url.host, url.port, url.path)),
                  header |-> {}])

server_discovery_fn(e, op, authorization) ==
    LET base == base_url(e)
    IN IF ~base.ok THEN base
       ELSE LET url == base.value[1].url
                custom == base.value[1].custom
            IN IF url.scheme \in {"http", "https"}
               THEN discovery_http(e, url, custom, authorization)
               ELSE IF url.scheme = "ssh"
               THEN discovery_ssh(e, url, custom, op, authorization)
               ELSE ErrValue("unknown scheme")

\* whether server_discovery has run git credential fill: only the arm of
\* http and https does
credential_fill_ran(e, authorization) ==
    /\ base_url(e).ok
    /\ base_url(e).value[1].url.scheme \in {"http", "https"}
    /\ credential_fill_asked(e, authorization)

\* ---- what git may answer
GitServer == "git-server.com"
\* the URLs of a remote
RemoteUrls ==
    {Url("https", "", GitServer, "", path) :
        path \in {"/foo/bar", "/foo/bar.git", "/foo/bar.git.git"}}
    \cup {Url("http", "", GitServer, "", "/foo/bar"),
          Url("ssh", "git", GitServer, "", "/foo/bar.git"),
          Url("ssh", "", GitServer, "2222", "/foo/bar"),
          Url("file", "", "", "", "/srv/foo/bar.git")}
\* what git config prints for a key: nothing (it fails), a URL, a line that
\* is no URL
Lines(host) == {None, Some(<<Url("https", "", host, "", "/foo/bar")>>), Some(<<NoUrl>>)}
\* lfs.url of the standard configuration also with other schemes, and with a
\* value of two lines
LinesUrl ==
    Lines("config.lfs-server.com")
    \cup {Some(<<Url("ssh", "git", "config.lfs-server.com", "", "/foo/bar.git")>>),
          Some(<<Url("file", "", "", "", "/srv/lfs")>>),
          Some(<<Url("https", "", "config.lfs-server.com", "", "/foo"),
                 Url("https", "", "config.lfs-server.com", "", "/bar")>>)}
\* what git credential fill answers: nothing (it fails), a username and a
\* password, a username alone
Credentials ==
    {None,
     Some([username |-> Some("corge"), password |-> Some("grault")]),
     Some([username |-> Some("corge"), password |-> None])}
\* what git-lfs-authenticate answers
SshResponse ==
    [href |-> Url("https", "", GitServer, "", "/foo/bar.git/info/lfs"),
     header |-> {<<"authorization", "RemoteAuth token">>}]

\* the remote argument is a name that is no URL, or one that parses as a URL;
\* git remote get-url may know either
Envs ==
    [toplevel : BOOLEAN,
     lfsconfig : [lfsurl : Lines("lfsconfig.lfs-server.dev"),
                  url : Lines("lfsconfig.lfs-server.com")],
     config : [lfsurl : Lines("config.lfs-server.dev"), url : LinesUrl],
     remote_url : {None} \cup {Some(u) : u \in RemoteUrls},
     remote : {NoUrl, Url("https", "", "remote-name.com", "", "/foo/bar")},
     extraheader : ExtraHeaders,
     credential : Credentials,
     ssh : {None, Some(SshResponse)}]

\* server_discovery(current_dir, operation, remote, authorization)
Discover(op, authorization) ==
    /\ response = None
    /\ response' = Some([operation |-> op, authorization |-> authorization,
                          credential_fill |-> credential_fill_ran(env, authorization),
                          returned |-> server_discovery_fn(env, op, authorization)])
    /\ UNCHANGED env

InitDiscovery ==
    /\ InitChannel /\ NoAgent /\ NoFs
    /\ env \in Envs
    /\ response = None

NextDiscovery ==
    \/ \E op \in Operations, authorization \in BOOLEAN :
          Discover(op, authorization) /\ UNCHANGED <<chanVars, agentVars, fsVars>>

SpecDiscovery == InitDiscovery /\ [][NextDiscovery]_vars

\* ------------------------------ progress on its own (transfer_agent.rs:329)
\* progress() is a function of the blocks its stream yields.  Here body
\* holds the lengths of the blocks yielded so far: the stream of a Reader
\* yields the non-empty content of a BufReader, 8192 bytes at most, so the
\* threshold takes eight blocks and more.
MaxBlocks == 9
BufReaderCapacity == 8192
BlockLens == {1, BufReaderCapacity}

\* mutant: the threshold has to be exceeded
Progress_data_above(n) ==
    LET since == bytes_since_last + n
    IN /\ bytes_so_far' = bytes_so_far + n
       /\ IF since > ProgressThreshold
          THEN /\ stdout' = Append(stdout, Progress(oid, bytes_so_far + n, since))
               /\ bytes_since_last' = 0
          ELSE /\ stdout' = stdout
               /\ bytes_since_last' = since

\* the body of the loop for a block of n bytes
Progress_data(n) ==
    LET since == bytes_since_last + n
    IN /\ bytes_so_far' = bytes_so_far + n
       /\ IF since >= ProgressThreshold
          THEN /\ stdout' = Append(stdout, Progress(oid, bytes_so_far + n, since))
               /\ bytes_since_last' = 0
          ELSE /\ stdout' = stdout
               /\ bytes_since_last' = since

\* body.try_next() yields Some(data)
Progress_next(n) ==
    /\ apc = "progress" /\ tpc.progress = "run"
    /\ Len(body) < MaxBlocks
    /\ body' = Append(body, n)
    /\ Progress_data(n)
    /\ UNCHANGED <<apc, cache, operation, remote, server_discovery, logs, request, oid,
                   tpc, gpc, result, store, hit, calls>>

\* body.try_next() yields None: the loop ends, what is left is reported
Progress_end ==
    /\ apc = "progress" /\ tpc.progress = "run"
    /\ stdout' = IF bytes_since_last > 0
                 THEN Append(stdout, Progress(oid, bytes_so_far, bytes_since_last))
                 ELSE stdout
    /\ tpc' = [tpc EXCEPT !.progress = "ok"]
    /\ UNCHANGED <<apc, cache, operation, remote, server_discovery, logs, request, oid,
                   gpc, body, bytes_so_far, bytes_since_last, result, store, hit, calls>>

\* body.try_next() yields Err: progress returns it
Progress_error ==
    /\ apc = "progress" /\ tpc.progress = "run"
    /\ tpc' = [tpc EXCEPT !.progress = "err"]
    /\ UNCHANGED <<apc, cache, operation, remote, server_discovery, logs, stdout, request,
                   oid, gpc, body, bytes_so_far, bytes_since_last, result, store, hit, calls>>

InitProgress ==
    /\ InitChannel /\ NoFs /\ NoDiscovery
    /\ apc = "progress"
    /\ cache = "none"
    /\ operation = "none"
    /\ remote = "none"
    /\ server_discovery = None
    /\ logs = <<>>
    /\ stdout = <<>>
    /\ request = [event |-> "none", oid |-> <<>>]
    /\ oid = Sha256Hex([i \in 1..MaxBytes |-> i])
    /\ tpc = [get |-> "run", check |-> "run", progress |-> "run"]
    /\ gpc = "request"
    /\ body = <<>>
    /\ bytes_so_far = 0
    /\ bytes_since_last = 0
    /\ result = Err(OtherError("pending"))
    /\ store = {}
    /\ hit = "none"
    /\ calls = <<>>

NextProgress ==
    \/ \E n \in BlockLens : Progress_next(n) /\ UNCHANGED <<chanVars, fsVars, sdVars>>
    \/ Progress_end /\ UNCHANGED <<chanVars, fsVars, sdVars>>
    \/ Progress_error /\ UNCHANGED <<chanVars, fsVars, sdVars>>

SpecProgress == InitProgress /\ [][NextProgress]_vars

\* --------------------------------------------- a session over two remotes
\* the agent started without a cache, so that every download takes the
\* server path, and git-lfs names either of two remotes in its init requests
TwoRemotes == {"origin", "upstream"}

InitRemotes == InitAgent /\ cache = "none"

NextRemotes ==
    \/ \E op \in Operations, rm \in TwoRemotes : Main_init(op, rm) /\ UNCHANGED <<fsVars, sdVars>>
    \/ \E o \in Oids : Main_upload(o) /\ UNCHANGED <<fsVars, sdVars>>
    \/ \E o \in Oids : Main_download(o) /\ UNCHANGED <<fsVars, sdVars>>
    \/ Main_terminate /\ UNCHANGED <<fsVars, sdVars>>
    \/ Main_eof /\ UNCHANGED <<fsVars, sdVars>>
    \/ Main_bad_line /\ UNCHANGED <<fsVars, sdVars>>
    \/ Download_channel_init /\ UNCHANGED <<fsVars, sdVars>>
    \/ Download_stream_progress /\ UNCHANGED <<fsVars, sdVars>>
    \/ \E n \in ChunkLens : Body_write_all(n) /\ UNCHANGED <<fsVars, sdVars>>
    \/ Body_write_publish /\ UNCHANGED <<fsVars, sdVars>>
    \/ Body_flush_some /\ UNCHANGED <<fsVars, sdVars>>
    \/ Body_frame_error /\ UNCHANGED <<fsVars, sdVars>>
    \/ Body_finish_flush /\ UNCHANGED <<fsVars, sdVars>>
    \/ Body_finish_publish /\ UNCHANGED <<fsVars, sdVars>>
    \/ Progress_wait_for /\ UNCHANGED <<fsVars, sdVars>>
    \/ Progress_fill_buf /\ UNCHANGED <<fsVars, sdVars>>
    \/ Progress_changed /\ UNCHANGED <<fsVars, sdVars>>
    \/ Download_join_ok /\ UNCHANGED <<fsVars, sdVars>>
    \/ Miss_join_err /\ UNCHANGED <<fsVars, sdVars>>
    \/ Download_log /\ UNCHANGED <<fsVars, sdVars>>
    \/ Main_complete /\ UNCHANGED <<fsVars, sdVars>>
    \/ \E found \in BOOLEAN : Miss_discovery(found) /\ UNCHANGED <<fsVars, sdVars>>
    \/ \E outcome \in BatchOutcomes, status \in ErrorStatuses : Miss_batch(outcome, status) /\ UNCHANGED <<fsVars, sdVars>>
    \/ \E found \in BOOLEAN : Miss_rediscovery(found) /\ UNCHANGED <<fsVars, sdVars>>
    \/ \E outcome \in BatchOutcomes, status \in ErrorStatuses : Miss_batch_again(outcome, status) /\ UNCHANGED <<fsVars, sdVars>>
    \/ \E objects \in BatchResponses : Miss_object(objects) /\ UNCHANGED <<fsVars, sdVars>>
    \/ \E transport \in BOOLEAN, status \in ErrorStatuses : Miss_get_error(transport, status) /\ UNCHANGED <<fsVars, sdVars>>
    \/ \E b \in Bodies : Miss_get_success(b) /\ UNCHANGED <<fsVars, sdVars>>

SpecRemotes == InitRemotes /\ [][NextRemotes]_vars

\* ------------------------------------------------------------ the claims
Opened(r) == rpc[r] # "unopened"

\* C1: after write(b_1), ..., write(b_n), finish, no reader stream fails,
\* whenever it was opened, and a stream that has ended has yielded exactly
\* b_1 ++ ... ++ b_n
C1_RoundTrip ==
    \A r \in Readers :
        /\ rpc[r] = "done" => wpc = "finished" /\ out[r] = written
        /\ wpc = "finished" => rpc[r] \notin {"broken", "panic"}

C1_Witness ==
    /\ wpc = "finished"
    /\ nwrites >= 2
    /\ \A r \in Readers : rpc[r] = "done" /\ out[r] = written

\* C2: after the writes, finish and keep, the file at the returned path is
\* still in the directory and holds exactly b_1 ++ ... ++ b_n
C2_KeptFile ==
    chan = "kept" /\ wpc = "finished" =>
        /\ temp \in dir
        /\ temp \in DOMAIN keptFile
        /\ keptFile[temp] = written

C2_Witness ==
    /\ chan = "kept"
    /\ wpc = "finished"
    /\ nwrites >= 2
    /\ keptFile[temp] = written
    /\ \A r \in {"body_0", "body_1"} : rpc[r] \in {"wait", "fill", "changed"} /\ pos[r] > 0

\* C3: once the writer is dropped without finish, no reader stream ends
\* successfully: a stream that has terminated has a broken-pipe error
C3_DropBreaksReaders ==
    wpc = "dropped" =>
        \A r \in Readers : rpc[r] \in {"unopened", "wait", "fill", "changed", "broken"}

C3_Witness ==
    /\ wpc = "dropped"
    /\ rpc["body_1"] = "broken" /\ out["body_1"] # <<>>
    /\ rpc["body_2"] = "broken"

\* C4: a channel dropped without keep leaves no file in its directory, a kept
\* channel leaves exactly its backing file
C4_DropUnlinks ==
    /\ chan = "dropped" => dir = {}
    /\ chan = "kept" => dir = {temp}

C4_Witness ==
    /\ chan = "dropped"
    /\ wpc = "finished"
    /\ file # <<>>
    /\ dir = {}

C6_ResetCoherent ==
    nresets > 0 =>
        /\ \A r \in Readers : rpc[r] = "done" => out[r] = written
        /\ chan = "kept" /\ wpc = "finished" => keptFile[temp] = written

C6_Witness ==
    /\ nresets > 0
    /\ prewritten # <<>>
    /\ written # <<>>
    /\ chan = "kept"
    /\ wpc = "finished"
    /\ keptFile[temp] = written
    /\ rpc["body_0"] = "done" /\ out["body_0"] = written
    /\ rpc["body_2"] = "done" /\ out["body_2"] = written

\* ---- the claims about the transfer agent
Completes == SelectSeq(stdout, LAMBDA e : e.event = "complete")
Idle == apc \in {"read", "exit", "aborted"}
Unimplemented == [code |-> 500, message |-> "unimplemented"]

\* C7: every download answered with complete{path} and no error, served by
\* the cache or by the server, has delivered a file whose SHA-256 is the oid
C7_DeliveredDigest ==
    \A i \in 1..Len(stdout) :
        stdout[i].event = "complete" /\ stdout[i].error = None =>
            /\ stdout[i].path # None
            /\ stdout[i].path[1] \in DOMAIN keptFile
            /\ Sha256Hex(keptFile[stdout[i].path[1]]) = stdout[i].oid

\* C8: each upload or download request gets exactly one complete, with its
\* oid and as the last response; every response before it is a progress of
\* that oid; a request that is being answered can always take a step;
\* nothing is written for terminate, or after the loop has ended
C8_OneComplete ==
    /\ [](/\ ~Idle => ENABLED NextAgent
          /\ request.event \in {"upload", "download"} /\ Idle =>
                /\ Len(Completes) = 1
                /\ stdout[Len(stdout)].event = "complete"
                /\ stdout[Len(stdout)].oid = request.oid
          /\ request.event = "download" /\ ~Idle => Completes = <<>>
          /\ request.event \in {"upload", "download"} =>
                \A i \in 1..Len(stdout) :
                    stdout[i].event \in {"progress", "complete"}
                        /\ stdout[i].oid = request.oid
                        /\ (stdout[i].event = "progress" => request.event = "download")
          /\ request.event = "terminate" => stdout = <<>>)
    /\ [][apc = "exit" => stdout' = stdout]_vars

C8_Witness ==
    /\ apc = "exit"
    /\ request.event = "download"
    /\ Len(stdout) = 3
    /\ stdout[1].event = "progress"
    /\ stdout[2].event = "progress"
    /\ stdout[3] = Complete(request.oid, Some(2), None)

\* C9: a step that answers an upload writes complete{oid, no path, error
\* 500 "unimplemented"} and nothing else, leaves operation, remote, the
\* cached server discovery and the cache as they are, stores and logs
\* nothing and creates no file in lfs/tmp
C9_UploadUnimplemented ==
    [][apc = "read" /\ apc' = "read" /\ request'.event = "upload" =>
          /\ stdout' = <<Complete(request'.oid, None, Some(Unimplemented))>>
          /\ UNCHANGED <<operation, remote, server_discovery, cache>>
          /\ store' = {}
          /\ logs' = <<>>
          /\ dir' = {}
          /\ keptFile' = <<>>]_vars

C9_Witness ==
    /\ apc = "read"
    /\ request.event = "upload"
    /\ stdout = <<Complete(request.oid, None, Some(Unimplemented))>>
    /\ cache = "http"
    /\ operation = "download"
    /\ server_discovery # None /\ server_discovery[1].authorization

\* C10: when the cache attempt of a download fails, the step that ends it
\* goes on to the server path and writes and returns nothing; no complete is
\* written before the server path has ended, the complete is the server
\* path's result, and a delivered file is the server path's file
C10_FallbackOnly ==
    /\ [](hit = "failed" =>
             /\ 1 \notin dir
             /\ ~Idle => Completes = <<>>
             /\ Idle =>
                   /\ stdout[Len(stdout)] =
                        Complete(request.oid, result.path,
                                 IF result.ok THEN None ELSE Some(error(result.error[1])))
                   /\ result.ok => result.path = Some(2) /\ 2 \in dir /\ 2 \in DOMAIN keptFile
                   /\ ~result.ok => dir = {})
    /\ [][apc = "hit" /\ apc' # "hit" /\ (\E t \in DOMAIN tpc : tpc[t] = "err") =>
             /\ apc' = "discovery"
             /\ hit' = "failed"
             /\ stdout' = stdout
             /\ result' = result]_vars

C10_Witness ==
    /\ hit = "failed"
    /\ apc = "read"
    /\ cache = "filesystem"
    /\ Len(stdout) = 3
    /\ stdout[1].event = "progress"
    /\ stdout[3] = Complete(request.oid, Some(2), None)
    /\ Sha256Hex(keptFile[2]) = request.oid

\* C11: on the server path with a cache, when the server body was written
\* and finished and cache.put fails, the download still succeeds
C11_PutErrorAbsorbed ==
    [][apc = "miss" /\ tpc.get = "ok" /\ tpc.check = "err" /\ apc' # "miss" =>
          result'.ok]_vars

\* C12: a download is served by the cache (channel kept, log line with a
\* cache source) only when the writer was finished, the digest stream and
\* the progress stream ended having yielded the whole object, and its
\* SHA-256 is the oid; an attempt with a failed future keeps and logs nothing
C12_HitNeedsAllThree ==
    /\ [](/\ hit = "ok" /\ apc \in {"log", "complete"} =>
                /\ \A t \in DOMAIN tpc : tpc[t] = "ok"
                /\ wpc = "finished" /\ state.eof
                /\ \A r \in {"body_0", "body_1"} : rpc[r] = "done" /\ out[r] = written
                /\ Sha256Hex(written) = oid
                /\ keptFile[temp] = written
          /\ hit = "ok" => Sha256Hex(keptFile[1]) = oid
          /\ \A i \in 1..Len(logs) : logs[i].cache # None => hit = "ok")
    /\ [][apc = "hit" /\ apc' # "hit" =>
             IF \A t \in DOMAIN tpc : tpc[t] = "ok"
             THEN hit' = "ok" /\ chan' = "kept"
             ELSE /\ hit' = "failed"
                  /\ chan' = "none"
                  /\ dir' = {}
                  /\ keptFile' = <<>>
                  /\ logs' = <<>>]_vars

C12_Witness ==
    /\ hit = "ok"
    /\ apc = "complete"
    /\ cache = "http"
    /\ nresets > 0
    /\ logs = <<[operation |-> "download", oid |-> oid, cache |-> Some("http")]>>
    /\ Sha256Hex(keptFile[1]) = oid

ProgressEvents == SelectSeq(stdout, LAMBDA e : e.event = "progress")

RECURSIVE SumSinceLast(_)
SumSinceLast(events) ==
    IF events = <<>> THEN 0
    ELSE events[1].bytesSinceLast + SumSinceLast(Tail(events))

\* C14: over all progress responses of one download, bytesSoFar never
\* decreases and the bytesSinceLast add up to the last bytesSoFar
C14_ProgressMonotone ==
    request.event = "download" =>
        /\ \A i \in 1..(Len(ProgressEvents) - 1) :
              ProgressEvents[i].bytesSoFar <= ProgressEvents[i + 1].bytesSoFar
        /\ ProgressEvents # <<>> =>
              SumSinceLast(ProgressEvents) = ProgressEvents[Len(ProgressEvents)].bytesSoFar

Batches == SelectSeq(calls, LAMBDA c : c.call = "batch")
\* the requests for the endpoint and to the batch API
Requests == SelectSeq(calls, LAMBDA c : c.call \in {"server_discovery", "batch"})
AuthDiscoveries ==
    SelectSeq(calls, LAMBDA c : c.call = "server_discovery" /\ c.authorization)

\* C15: within one download at most two batch requests and at most one
\* discovery with authorization are made; the discovery with authorization
\* is made exactly when the first batch answered 401, and is followed by
\* exactly one more batch; a 401 on that one, or any other failure status
\* on the first, is the download's error and the last call
C15_RetryOnceOn401 ==
    request.event = "download" =>
        /\ Len(Batches) <= 2
        /\ Len(AuthDiscoveries) <= 1
        /\ AuthDiscoveries # <<>> =>
              /\ Batches[1].outcome = "unauthorized"
              /\ \E i \in 2..Len(calls) :
                    /\ calls[i - 1] = Batches[1]
                    /\ calls[i] = AuthDiscoveries[1]
                    /\ \A j \in 1..(i - 2) : calls[j].call # "batch"
        /\ Batches # <<>> /\ Batches[1].outcome = "unauthorized" /\ apc # "rediscovery" =>
              AuthDiscoveries # <<>>
        /\ Batches # <<>> /\ Batches[1].outcome # "unauthorized" =>
              AuthDiscoveries = <<>> /\ Len(Batches) = 1
        /\ AuthDiscoveries # <<>> /\ AuthDiscoveries[1].outcome = "ok" /\ apc # "batch_again" =>
              Len(Batches) = 2 /\ Requests[Len(Requests)] = Batches[2]
        /\ Len(Batches) = 2 /\ Batches[2].outcome = "unauthorized" =>
              /\ apc = "complete" \/ Idle
              /\ result = Err(LfsError(401, "batch"))
        /\ Batches # <<>> /\ Batches[1].outcome = "status" =>
              /\ apc = "complete" \/ Idle
              /\ calls[Len(calls)] = Batches[1]
              /\ result = Err(LfsError(Batches[1].status, "batch"))

C15_Witness ==
    /\ apc = "read"
    /\ request.event = "download"
    /\ calls = <<discovery_call(FALSE, "ok"), server_call("batch", "unauthorized", 401),
                 discovery_call(TRUE, "ok"), server_call("batch", "unauthorized", 401)>>
    /\ stdout[Len(stdout)] =
          Complete(request.oid, None, Some([code |-> 401, message |-> "batch"]))

\* the attempts the claims call transient and permanent
IsTransientAttempt(a) ==
    \/ a.kind \in {"transport", "body"}
    \/ a.kind = "response" /\ (a.status = 408 \/ a.status \in 500..599)
IsPermanentAttempt(a) ==
    \/ a.kind = "construction"
    \/ a.kind = "response" /\ a.status \in 400..499 /\ a.status # 408
\* the future of the call of the http backend: get, or put
HttpCall == IF apc = "http_get" THEN "get" ELSE "check"

\* C16: in get and put of the http cache, an attempt that meets status 408
\* or 5xx, or a transport error while the request is sent or a body is read,
\* does not end the call: the next step of the retry loop is another attempt
\* (unless the time budget of the backoff has run out, the only way such an
\* error is returned).  An attempt that meets any other 4xx status, or whose
\* request cannot be built, ends the call at once with that error, which
\* carries the status; no attempt follows it, so a 404 ends get after one
\* request.
C16_RetryClasses ==
    /\ [][calls' # calls =>
            LET a == calls'[Len(calls')]
            IN /\ IsTransientAttempt(a) =>
                    /\ tpc' = tpc /\ tpc[HttpCall] = "run"
                    /\ gpc' = "request"
                    /\ result'.error # None
               /\ IsPermanentAttempt(a) =>
                    /\ tpc'[HttpCall] = "err"
                    /\ gpc' = "returned"
                    /\ result'.error # None
                    /\ a.kind = "response" => /\ result'.error[1].lfs
                                              /\ error(result'.error[1]).code = a.status
                                              /\ result'.error[1].message = "b\"not found\""]_vars
    /\ [][tpc[HttpCall] = "run" /\ tpc'[HttpCall] = "err" /\ calls' = calls =>
            /\ calls # <<>> /\ IsTransientAttempt(calls[Len(calls)])
            /\ gpc = "request" /\ result' = result]_vars
    /\ [](/\ \A i \in 1..(Len(calls) - 1) : IsTransientAttempt(calls[i])
          /\ (calls # <<>> /\ IsPermanentAttempt(calls[Len(calls)])) =>
                 /\ tpc[HttpCall] = "err"
                 /\ ~ENABLED (\E a \in Attempts, b \in Bodies : Http_get_attempt(a, b))
                 /\ ~ENABLED (\E built \in BOOLEAN : Http_put_request(built))
          /\ (calls # <<>> /\ IsTransientAttempt(calls[Len(calls)])
              /\ tpc[HttpCall] = "run" /\ gpc = "request" /\ Len(calls) < MaxAttempts) =>
                 IF apc = "http_get"
                 THEN ENABLED (\E a \in Attempts, b \in Bodies : Http_get_attempt(a, b))
                 ELSE ENABLED (\E built \in BOOLEAN : Http_put_request(built)))

\* get met 408, then a transport error, then 404 "not found"
C16_Witness ==
    /\ apc = "http_get"
    /\ calls = <<[kind |-> "response", status |-> 408],
                 [kind |-> "transport", status |-> 0],
                 [kind |-> "response", status |-> 404]>>
    /\ tpc.get = "err"
    /\ result = Err(LfsError(404, "b\"not found\""))

\* the endpoint answered 503, 503 and then 200
Answers503_503_200 ==
    /\ apc = "http_get"
    /\ calls = <<[kind |-> "response", status |-> 503],
                 [kind |-> "response", status |-> 503],
                 [kind |-> "response", status |-> 200]>>
ReaderStep(r) == Reader_wait_for(r) \/ Reader_fill_buf(r) \/ Reader_changed(r)

\* C17: when the endpoint answers a get with 503, 503 and then 200 with
\* body B, get does not fail and returns once the writer has finished, the
\* writer finishes once, and a stream of the channel, whenever it was opened,
\* never fails, yields a prefix of B at every moment, goes on until it has
\* ended, and has then yielded exactly B
C17_RetriesThenSuccess ==
    /\ [](Answers503_503_200 =>
            /\ tpc.get # "err"
            /\ written \o body \in Bodies
            /\ prewritten = <<>> /\ nresets <= 1
            /\ \A r \in Readers :
                  /\ rpc[r] \notin {"broken", "panic"}
                  /\ ~rhit[r]
                  /\ IsPrefix(out[r], written)
                  /\ rpc[r] = "done" => out[r] = written /\ body = <<>>
            /\ tpc.get = "ok" =>
                  /\ wpc = "finished" /\ state.eof /\ body = <<>> /\ nresets = 1
                  /\ file = written /\ state.size = Len(written)
                  /\ \A r \in Readers :
                        Opened(r) => rpc[r] = "done" \/ ENABLED ReaderStep(r)
            /\ (tpc.get = "run" /\ body = <<>> /\ gpc = "body") =>
                  ENABLED (Body_write_publish \/ Body_finish_flush \/ Body_finish_publish))
    /\ [][wpc = "finished" => wpc' = "finished" /\ state' = state /\ file' = file]_vars

\* 503, 503, 200: get has returned Ok and a stream has ended with the body
C17_Witness ==
    /\ Answers503_503_200
    /\ tpc.get = "ok"
    /\ wpc = "finished"
    /\ rpc["body_0"] = "done"
    /\ out["body_0"] = [i \in 1..MaxBytes |-> i]

\* C18: in the filesystem cache the name path(oid) is given to a file only
\* by the rename that ends a put, after the stream of that put has ended
\* without an error and all it yielded is in the file; the file that has the
\* name is never written again; a put that failed has neither created nor
\* changed the entry; and a get, whatever puts run beside it, reads a prefix
\* of the whole stream of one put and ends with all of it
C18_AtomicEntry ==
    /\ [][root'.entry # root.entry =>
            \E p \in Puts :
               /\ put[p].pc = "rename" /\ put'[p].pc = "ok"
               /\ root'.entry = Some(p)
               /\ put[p].file = put[p].taken /\ put[p].buf = <<>>
               /\ put'[p].file = put[p].file]_vars
    /\ [][\A p \in Puts :
            /\ root.entry = Some(p) => put'[p] = put[p]
            /\ (put[p].pc # "err" /\ put'[p].pc = "err") =>
                  /\ root'.entry = root.entry
                  /\ put[p].pc \in {"body", "rename"}
                  /\ root.entry # Some(p)]_vars
    /\ [](/\ \A p \in Puts :
               /\ put[p].pc \in {"call", "body", "rename", "err"} => root.entry # Some(p)
               /\ root.entry = Some(p) => put[p].file = put[p].taken
          /\ getter.handle # None =>
               LET p == getter.handle[1]
               IN /\ put[p].pc = "ok"
                  /\ put[p].file = put[p].taken
                  /\ IsPrefix(getter.out, put[p].taken)
                  /\ getter.pc = "ok" => getter.out = put[p].taken
          /\ getter.pc = "err" => getter.handle = None /\ getter.out = <<>>)

\* the second put has replaced the entry of the first while a get that
\* opened the first entry was reading it; the get has ended with the whole
\* stream of the first put
C18_Witness ==
    /\ put[1].pc = "ok" /\ put[2].pc = "ok"
    /\ Len(put[1].taken) = MaxBytes /\ Len(put[2].taken) = MaxBytes
    /\ root.entry = Some(2)
    /\ getter.pc = "ok" /\ getter.handle = Some(1)
    /\ getter.out = put[1].taken

\* the base URL discovery derives the href from, and whether it is a custom one
Base == base_url(env).value[1]
\* a trailing ".git" is removed once
strip_suffix(s, pat) == IF ends_with(s, pat) THEN SubSeq(s, 1, Len(s) - Len(pat)) ELSE s

\* C19: for a base URL of scheme http or https, or of scheme ssh when
\* authorize is false, that is no custom URL, the href is the base URL (with
\* scheme https, host, port and path for ssh) without one trailing ".git",
\* followed by ".git/info/lfs"; a custom URL is the href as it is; a base
\* URL of any other scheme makes discovery fail
C19_HrefFromBase ==
    (response # None /\ base_url(env).ok) =>
        LET r == response[1].returned
            url == Base.url
            derived == IF url.scheme = "ssh"
                       THEN Url("https", "", url.host, url.port, url.path)
                       ELSE url
        IN IF url.scheme \notin {"http", "https", "ssh"} THEN ~r.ok
           ELSE IF url.scheme = "ssh" /\ response[1].authorization THEN TRUE
           ELSE /\ r.ok
                /\ IF Base.custom THEN r.value[1].href = url
                   ELSE to_string(r.value[1].href) =
                           strip_suffix(to_string(derived), ".git") \o ".git/info/lfs"

\* a setting git prints as one line that is a URL
IsUrlSetting(lines) == lines # None /\ Len(lines[1]) = 1 /\ lines[1][1] # NoUrl
\* every setting that is present is one line that is a URL
SettingsWellFormed ==
    \A lines \in {env.lfsconfig.lfsurl, env.lfsconfig.url, env.config.lfsurl, env.config.url} :
        lines = None \/ IsUrlSetting(lines)
\* the custom URLs a configuration file holds
CustomUrls(location) ==
    {lines[1][1] : lines \in {l \in {location.lfsurl, location.url} : IsUrlSetting(l)}}
\* the custom URL a configuration file gives: that of its first key that is
\* set, remote.<name>.lfsurl before lfs.url, when it is one line and a URL
GivenUrl(location) ==
    LET lines == IF location.lfsurl # None THEN location.lfsurl ELSE location.url
    IN IF IsUrlSetting(lines) THEN {lines[1][1]} ELSE {}
\* the four sources in the order of their priority, each with the URLs it
\* offers; .lfsconfig is found only in a work tree
Sources(lfsconfig, config) ==
    <<[from |-> IF env.toplevel THEN lfsconfig ELSE {}, custom |-> TRUE],
      [from |-> config, custom |-> TRUE],
      [from |-> IF env.remote_url # None THEN {env.remote_url[1]} ELSE {}, custom |-> FALSE],
      [from |-> IF env.remote # NoUrl THEN {env.remote} ELSE {}, custom |-> FALSE]>>
\* the base URL comes from the first source that offers one
FromFirst(sources) ==
    LET offering == {i \in DOMAIN sources : sources[i].from # {}}
    IN IF offering = {} THEN ~base_url(env).ok
       ELSE LET first == CHOOSE i \in offering : \A j \in offering : i <= j
            IN /\ base_url(env).ok
               /\ Base.url \in sources[first].from
               /\ Base.custom = sources[first].custom
               /\ LET r == response[1].returned
                  IN \/ Base.url.scheme \notin {"http", "https", "ssh"} /\ ~r.ok
                     \/ Base.url.scheme = "ssh" /\ response[1].authorization
                     \/ /\ r.ok
                        /\ r.value[1].href.host \in {u.host : u \in sources[first].from}
                        /\ \A j \in offering \ {first} :
                              r.value[1].href.host \notin {u.host : u \in sources[j].from}

\* C20: the base URL is that of the first of: a custom URL of .lfsconfig of
\* the work tree, a custom URL (remote.<name>.lfsurl or lfs.url) of the
\* standard configuration, the URL git remote get-url prints, the remote
\* name parsed as a URL; whichever of the four are present or absent. A file
\* whose first set key is not one line holding a URL gives no custom URL.
C20_BasePriority ==
    response # None =>
        /\ SettingsWellFormed =>
              FromFirst(Sources(CustomUrls(env.lfsconfig), CustomUrls(env.config)))
        /\ FromFirst(Sources(GivenUrl(env.lfsconfig), GivenUrl(env.config)))

\* all four sources offer a URL, and the href returned is the one of .lfsconfig
C20_Witness ==
    /\ response # None /\ response[1].returned.ok
    /\ env.toplevel /\ SettingsWellFormed
    /\ env.lfsconfig.lfsurl = None /\ env.lfsconfig.url # None
    /\ env.config.lfsurl # None /\ env.config.url # None
    /\ env.remote_url # None /\ env.remote # NoUrl
    /\ response[1].returned.value[1].href = env.lfsconfig.url[1][1]

\* git printed a line whose name, the text before its first colon, is
\* Authorization in any case
HasAuthorizationLine(lines) ==
    lines # None /\
    \E i \in DOMAIN lines[1] :
        LET line == lines[1][i]
        IN \E k \in 1..Len(line) :
              /\ SubSeq(line, k, k) = ":"
              /\ \A j \in 1..(k - 1) : SubSeq(line, j, j) # ":"
              /\ to_ascii_lowercase(trim(SubSeq(line, 1, k - 1))) = AUTHORIZATION
WithAuthorizationLine == {lines \in ExtraHeaders : HasAuthorizationLine(lines)}
ConfiguredAuthorization == env.extraheader \in WithAuthorizationLine
\* the endpoint is one of http or https
HttpEndpoint == base_url(env).ok /\ Base.url.scheme \in {"http", "https"}

\* C21: for an endpoint of http or https the credential helper is asked, and
\* a Basic Authorization header inserted, only when authorize is true and no
\* Authorization header came from http.extraheader; with authorize false the
\* headers are the configured extra headers and nothing else; a configured
\* Authorization header is never replaced by the helper's credentials
C21_CredentialOnlyWhenNeeded ==
    (response # None /\ HttpEndpoint) =>
        LET r == response[1].returned
            basic == {h \in r.value[1].header : h[1] = AUTHORIZATION /\ SubSeq(h[2], 1, 6) = "Basic "
                                                  /\ h \notin extraheader(env)}
        IN /\ r.ok
           /\ response[1].credential_fill =>
                 response[1].authorization /\ ~ConfiguredAuthorization
           /\ basic # {} => response[1].credential_fill /\ env.credential # None
           /\ ~response[1].authorization => r.value[1].header = extraheader(env)
           /\ extraheader(env) \subseteq r.value[1].header
           /\ ConfiguredAuthorization =>
                 /\ r.value[1].header = extraheader(env)
                 /\ contains_key(r.value[1].header, AUTHORIZATION)
           /\ (response[1].authorization /\ ~ConfiguredAuthorization
                 /\ env.credential = Some([username |-> Some("corge"), password |-> Some("grault")])) =>
                 r.value[1].header = extraheader(env) \cup {<<AUTHORIZATION, "Basic corge:grault">>}

\* authorize is true, http.extraheader holds an Authorization line next to
\* another header, the helper has credentials: the headers returned are the
\* two configured ones
C21_Witness ==
    /\ response # None /\ HttpEndpoint
    /\ response[1].authorization
    /\ env.extraheader = Some(<<"X-Extra: 1", "AUTHORIZATION:Bearer t">>)
    /\ env.credential # None /\ env.credential[1].password # None
    /\ response[1].returned.value[1].header
          = {<<"x-extra", "1">>, <<"authorization", "Bearer t">>}
    /\ ~response[1].credential_fill

\* the download read last has failed and has been answered
FailedDownload == request.event = "download" /\ apc = "read" /\ ~result.ok
\* the HTTP status of the answer that failed the download: that of the last
\* request if it was answered with a status that is no success, else none (0)
FailureStatus ==
    IF calls = <<>> THEN 0
    ELSE LET last == calls[Len(calls)]
         IN IF last.call \in {"batch", "object", "get", "put"} /\ last.status \notin {0, 200}
            THEN last.status
            ELSE 0

\* C22: a download that has failed, after the cache fallback if there was
\* one, is answered with complete{oid, error{code, message}} and no path;
\* the code is the HTTP status if the failure was an answer with a status
\* (the batch response, the object's error in it, the response to the GET)
\* and 500 if the failure has no status; the step that answers a download
\* writes this one response and reads on
C22_FailureReported ==
    /\ [](FailedDownload =>
            LET c == stdout[Len(stdout)]
            IN /\ c.event = "complete"
               /\ c.oid = request.oid
               /\ c.path = None
               /\ c.error # None
               /\ c.error[1].message = result.error[1].message
               /\ c.error[1].code = IF FailureStatus # 0 THEN FailureStatus ELSE 500
               /\ FailureStatus # 0 => result.error[1].message \in {"batch", "object", "get", "put"}
               /\ result.error[1].message \in {"batch", "object", "get"} =>
                     (c.error[1].code # 500 <=> calls[Len(calls)].outcome \in {"status", "error", "unauthorized"}))
    /\ [][apc = "complete" /\ ~result.ok =>
            /\ apc' = "read"
            /\ Len(stdout') = Len(stdout) + 1
            /\ result' = result /\ calls' = calls]_vars

\* the cache attempt failed, the server answered the GET with 503: the
\* download is answered with that status
C22_Witness ==
    /\ FailedDownload
    /\ hit = "failed"
    /\ calls # <<>>
    /\ calls[Len(calls)] = server_call("get", "status", 503)
    /\ stdout[Len(stdout)] = Complete(request.oid, None, Some([code |-> 503, message |-> "get"]))

\* the request read last has its responses: none for terminate, the init
\* response for init, for an upload or a download one complete, written last
Answered ==
    CASE request.event = "none" -> stdout = <<>>
      [] request.event = "terminate" -> stdout = <<>>
      [] request.event = "init" -> stdout = <<InitResponse>>
      [] OTHER -> /\ Len(Completes) = 1
                  /\ stdout[Len(stdout)].event = "complete"
                  /\ stdout[Len(stdout)].oid = request.oid
\* a step of main that reads a request from stdin
ReadsRequest ==
    \/ \E op \in Operations, rm \in Remotes : Main_init(op, rm)
    \/ \E o \in Oids : Main_upload(o) \/ Main_download(o)
    \/ Main_terminate

\* C23: requests are answered one at a time in the order they are read: a
\* request is read only when the request before it has all its responses;
\* until a download has its complete no request is read, every response
\* written is for that download, and there is one channel at most; every
\* init response or complete is written for the request read last
C23_OneAtATime ==
    /\ [][ReadsRequest => Answered /\ apc = "read"]_vars
    /\ [][~Idle /\ ~ReadsRequest => request' = request]_vars
    /\ [][stdout' # stdout /\ ~ReadsRequest =>
            /\ request' = request
            /\ request.event = "download"
            /\ ~Idle
            /\ Len(stdout') = Len(stdout) + 1
            /\ SubSeq(stdout', 1, Len(stdout)) = stdout
            /\ stdout'[Len(stdout')].oid = request.oid]_vars
    /\ [](/\ ~Idle => request.event = "download" /\ oid = request.oid /\ Completes = <<>>
          /\ Idle => Answered
          /\ Cardinality(dir \ DOMAIN keptFile) <= 1)

\* after the init of the session a download has been answered from the
\* server with a progress and its complete, and the next request can be read
C23_Witness ==
    /\ apc = "read" /\ request.event = "download" /\ Answered
    /\ operation = "download"
    /\ server_discovery # None /\ calls = <<>>
    /\ cache = "none" /\ result.ok
    /\ Len(stdout) = 2

\* C24: the published pair (written-bytes, eof) of a channel: written-bytes
\* grows by the length of each write and otherwise changes only by a reset,
\* which publishes 0; eof never goes back to false; once eof is published
\* the pair never changes again, the writer is gone and neither write nor
\* reset is possible
C24_PublishedMonotone ==
    /\ [][state' # state =>
            /\ ~state.eof
            /\ \/ /\ wpc = "write"
                  /\ state' = [state EXCEPT !.size = @ + Len(wdata)]
                  /\ state'.size > state.size
               \/ /\ wpc = "finish_publish"
                  /\ state' = [state EXCEPT !.eof = TRUE]
               \/ /\ wpc = "reset_publish"
                  /\ state'.size = 0 /\ ~state'.eof]_vars
    /\ [][state.eof => state'.eof /\ state'.size = state.size]_vars
    /\ [](state.eof =>
            /\ wpc = "finished"
            /\ ~ENABLED (\E n \in ChunkLens : Writer_write_all(Fresh(n)))
            /\ ~ENABLED Writer_reset_flush)
    /\ [](state.size <= Len(written))

\* data was published, a reset published 0, more data was published and then eof
C24_Witness ==
    /\ state.eof /\ state.size = 1
    /\ nresets = 1
    /\ Len(prewritten) = 1 /\ Len(written) = 1

\* C25: a line that is no request (a blank line included) aborts the
\* session: the step that takes it comes from the read position, writes no
\* response and changes nothing else the agent has produced; from the
\* aborted position no step is taken, so no later line is read or answered
\* and the clean exit is never reached
C25_BadLineAborts ==
    /\ [][apc' = "aborted" /\ apc # "aborted" =>
            /\ apc = "read"
            /\ UNCHANGED <<stdout, logs, store, request, result, calls, server_discovery>>
            /\ UNCHANGED <<chanVars, fsVars>>]_vars
    /\ [][apc # "aborted"]_vars
    /\ [][apc = "read" /\ stdout' # stdout => apc' # "aborted"]_vars

\* C25 witness: the session is aborted after a download was answered, and
\* the responses of that download are the last lines on stdout
C25_Witness ==
    /\ apc = "aborted"
    /\ request.event = "download"
    /\ Completes # <<>>
    /\ stdout[Len(stdout)].event = "complete"

\* bytes received with the first k blocks of the stream
RECURSIVE BytesReceived(_)
BytesReceived(k) == IF k = 0 THEN 0 ELSE BytesReceived(k - 1) + body[k]

\* a response written after block k: blocks are not empty, so the total it
\* carries names the block
ReportedAt(k) == \E i \in 1..Len(stdout) : stdout[i].bytesSoFar = BytesReceived(k)

\* bytes received up to block k since the last response written before it
RECURSIVE Unreported(_)
Unreported(k) ==
    IF k = 0 THEN 0
    ELSE body[k] + (IF ReportedAt(k - 1) THEN 0 ELSE Unreported(k - 1))

\* what every response carries: the total received so far and the bytes
\* received since the response before it
ResponsesCarry ==
    \A i \in 1..Len(stdout) :
        /\ stdout[i].event = "progress" /\ stdout[i].oid = oid
        /\ \E k \in 1..Len(body) :
              /\ stdout[i].bytesSoFar = BytesReceived(k)
              /\ stdout[i].bytesSinceLast = Unreported(k)
        /\ stdout[i].bytesSinceLast =
              stdout[i].bytesSoFar - (IF i = 1 THEN 0 ELSE stdout[i - 1].bytesSoFar)
        /\ stdout[i].bytesSinceLast > 0

\* C26 (amended): a progress response is written after a block exactly when
\* the bytes received since the last response have reached 65536, and
\* bytes_since_last is 0 after it; at the end of the stream one more response
\* is written exactly when bytes have been received since the last response;
\* every response carries the total received so far and the bytes received
\* since the response before it
C26_ProgressAtThreshold ==
    /\ ResponsesCarry
    /\ \A k \in 1..Len(body) :
          ReportedAt(k) <=>
              \/ Unreported(k) >= 65536
              \/ k = Len(body) /\ tpc.progress = "ok" /\ Unreported(k) > 0
    /\ bytes_so_far = BytesReceived(Len(body))
    /\ tpc.progress = "run" =>
          bytes_since_last =
              IF ReportedAt(Len(body)) THEN 0 ELSE Unreported(Len(body))
    /\ tpc.progress = "err" =>
          \A k \in 1..Len(body) : ReportedAt(k) <=> Unreported(k) >= 65536

\* C26 witness: the stream has ended after 65537 bytes: one response when
\* the eighth block reached the threshold and one for the byte left at the end
C26_Witness ==
    /\ tpc.progress = "ok"
    /\ stdout = <<Progress(oid, 65536, 65536), Progress(oid, 65537, 1)>>
    /\ bytes_so_far = 65537

\* C26 as stated: a response exactly at the threshold, bytes_since_last 0
\* after each, and one more response at the end of the stream
C26_FinalResponseAlways ==
    /\ [](ResponsesCarry /\
          \A k \in 1..Len(body) :
              k < Len(body) \/ tpc.progress # "ok" =>
                  (ReportedAt(k) <=> Unreported(k) >= 65536))
    /\ [][Len(stdout') > Len(stdout) => bytes_since_last' = 0]_vars
    /\ [][tpc.progress = "run" /\ tpc'.progress = "ok" =>
             Len(stdout') = Len(stdout) + 1]_vars

\* the step is a call of git_lfs::server_discovery with this outcome
Discovers(authorization, outcome) ==
    calls' = Append(calls, discovery_call(authorization, outcome))

\* C27: Context.server_discovery is None until a download on the server
\* path derives it; a later lookup without authorization takes the cached
\* value and calls no discovery; the cached value changes only by a
\* successful lookup with authorization, which replaces it; a failed
\* discovery leaves the cached value as it was
C27_DiscoveryCached ==
    /\ [][server_discovery = None /\ server_discovery' # None =>
            /\ apc = "discovery" /\ request.event = "download"
            /\ Discovers(FALSE, "ok")
            /\ server_discovery' = Some(discovery_response(FALSE))]_vars
    /\ [][apc = "discovery" /\ server_discovery # None =>
            /\ UNCHANGED <<server_discovery, calls>>
            /\ apc' = "batch"]_vars
    /\ [][server_discovery # None /\ server_discovery' # server_discovery =>
            /\ apc = "rediscovery"
            /\ Discovers(TRUE, "ok")]_vars
    /\ [][Discovers(TRUE, "ok") =>
            server_discovery' = Some(discovery_response(TRUE))]_vars
    /\ [][Discovers(FALSE, "error") \/ Discovers(TRUE, "error") =>
            UNCHANGED server_discovery]_vars
    /\ [](request.event = "none" => server_discovery = None)

\* C27 witness: a download is at its batch request with the response an
\* earlier download derived with authorization, and has called no discovery
C27_Witness ==
    /\ apc = "batch"
    /\ request.event = "download"
    /\ server_discovery # None /\ server_discovery[1].authorization
    /\ calls = <<>>

\* a stream that is open and has not terminated
Streaming(r) == rpc[r] \in {"wait", "fill", "changed"}

\* C28: no step of the writer waits for a reader: whatever the streams have
\* read, an idle writer can write (while bytes are left) and can finish, and
\* each half-done write or finish can complete.  After finish no stream
\* fails, whenever it was opened and however little it has read: what it has
\* yielded is a prefix of the bytes written, its next step can be taken, and
\* at its end it has yielded all of them.  No stream fails or stops because
\* of another stream: a stream fails only when the writer was dropped, and
\* a stream with published bytes ahead can step wherever the others are.
C28_WriterNeverWaits ==
    \A r \in Readers :
        /\ wpc = "idle" /\ Len(prewritten) + Len(written) < MaxBytes =>
              ENABLED (\E n \in ChunkLens : Writer_write_all(Fresh(n)))
        /\ wpc = "idle" => ENABLED Writer_finish_flush
        /\ wpc = "write" => ENABLED Writer_write_publish
        /\ wpc = "finish_publish" => ENABLED Writer_finish_publish
        /\ wpc = "finished" =>
              /\ rpc[r] \notin {"broken", "panic"}
              /\ IsPrefix(out[r], written)
              /\ Streaming(r) =>
                    ENABLED (Reader_wait_for(r) \/ Reader_fill_buf(r) \/ Reader_changed(r))
              /\ rpc[r] = "done" => out[r] = written
        /\ rpc[r] = "broken" => wpc = "dropped"
        /\ rpc[r] # "panic"
        /\ rpc[r] = "wait" /\ (state.size > pos[r] \/ state.eof) =>
              ENABLED Reader_wait_for(r)
        /\ rpc[r] = "fill" => ENABLED Reader_fill_buf(r)

\* C28 witness: the writer has written the whole object and finished while
\* the stream opened first has yielded nothing; the stream opened during
\* the writes and the stream opened after finish have yielded everything
C28_Witness ==
    /\ wpc = "finished"
    /\ Len(written) = MaxBytes
    /\ rpc["body_0"] = "wait" /\ out["body_0"] = <<>>
    /\ rpc["body_1"] = "done" /\ out["body_1"] = written
    /\ rpc["body_2"] = "done" /\ out["body_2"] = written

\* C29: with every open stream polled again and again, a stream that is
\* open once the writer has finished ends with the end of the sequence, and
\* a stream that is open once the writer was dropped ends with broken pipe;
\* this includes the stream that found the file empty below the published
\* size and waits for a change
C29_ReadersTerminate ==
    \A r \in Readers :
        (Closed /\ Streaming(r)) ~>
            (rpc[r] = IF wpc = "finished" THEN "done" ELSE "broken")

\* C29 witness: the writer was dropped with published bytes that never
\* reached the file; the stream found the file empty at its position, has
\* seen the last publication and waits for a change
C29_Witness ==
    /\ wpc = "dropped"
    /\ rpc["body_0"] = "changed"
    /\ seen["body_0"]
    /\ pos["body_0"] < state.size
    /\ Len(file) <= pos["body_0"]

\* what stream r has yielded is a prefix of what the writer has written
\* since the last reset, byte for byte in the writer's order
EmittedPrefix(r) ==
    /\ Len(out[r]) <= Len(written)
    /\ \A i \in 1..Len(out[r]) : out[r][i] = written[i]

LastCall == calls[Len(calls)]

\* the first object of the response with the requested oid, if any
Matching(objects) == {i \in 1..Len(objects) : objects[i].oid = oid}
FirstMatching(objects, i) == i \in Matching(objects) /\ \A j \in Matching(objects) : i <= j

\* C31: the download is at its GET only when the batch response holds an
\* object with the requested oid and the first such object carries a
\* download action.  When no object has the oid, or that object has no
\* download action or is an error, the download fails with that error (the
\* object's code, else 500): no GET is issued, no channel is created on the
\* server path and no telemetry line is written
C31_GetNeedsDownloadAction ==
    /\ apc = "get" =>
          /\ calls # <<>> /\ LastCall.call = "object"
          /\ \E i \in 1..Len(LastCall.objects) :
                /\ FirstMatching(LastCall.objects, i)
                /\ LastCall.objects[i].inner = "download"
    /\ calls # <<>> /\ LastCall.call = "object" /\ apc # "get" =>
          LET objects == LastCall.objects
              code == IF \E i \in 1..Len(objects) :
                            FirstMatching(objects, i) /\ objects[i].inner = "error"
                      THEN objects[CHOOSE i \in 1..Len(objects) : FirstMatching(objects, i)].code
                      ELSE 500
          IN /\ \A i \in 1..Len(objects) :
                   FirstMatching(objects, i) => objects[i].inner # "download"
             /\ ~result.ok /\ result.path = None
             /\ error(result.error[1]).code = code
             /\ \A i \in 1..Len(calls) : calls[i].call # "get"
             /\ chan = "none" /\ temp = (IF hit = "failed" THEN 1 ELSE 0) /\ dir = {}
             /\ logs = <<>>
             /\ apc = "read" =>
                   stdout[Len(stdout)] = Complete(oid, None, Some(error(result.error[1])))

\* C31 witness: the response names another oid with a download action first
\* and the requested oid with an error of code 404; the download was
\* answered with that code after a failed cache attempt
C31_Witness ==
    /\ apc = "read"
    /\ calls # <<>> /\ LastCall.call = "object"
    /\ Len(LastCall.objects) = 2
    /\ LastCall.objects[1].oid # oid /\ LastCall.objects[1].inner = "download"
    /\ LastCall.objects[2] = BatchObject(oid, "error", 404)
    /\ hit = "failed"
    /\ stdout[Len(stdout)].error = Some([code |-> 404, message |-> "object"])

\* the channel files in lfs/tmp that no keep() has turned into a result
Unkept == dir \ DOMAIN keptFile

\* the server path of a download, up to the fan-out of its GET
OnServerPath == apc \in {"discovery", "batch", "rediscovery", "batch_again", "object", "get"}

\* C32: a channel serves one transfer attempt.  The channel of a failed
\* cache attempt is gone and its file unlinked all along the server path,
\* before the GET's success creates the second channel; lfs/tmp never holds
\* more than one un-kept channel file, an un-kept file is the file of the
\* live channel, and none is left once the download has ended
C32_OneChannelPerAttempt ==
    /\ Cardinality(Unkept) <= 1
    /\ Unkept # {} => Unkept = {temp} /\ chan \in {"fresh", "open"} /\ apc \in {"hit_init", "hit_open", "hit", "miss_init", "miss_open", "miss"}
    /\ OnServerPath => chan = "none" /\ Unkept = {} /\ temp = (IF hit = "failed" THEN 1 ELSE 0)
    /\ apc \in {"miss_init", "miss_open", "miss"} => temp = (IF hit = "failed" THEN 2 ELSE 1)
    /\ apc \in {"hit_init", "hit_open", "hit"} => temp = 1
    /\ apc \in {"log", "complete"} \cup {"read", "exit", "aborted"} => Unkept = {}
    /\ chan = "kept" => temp \in DOMAIN keptFile /\ DOMAIN keptFile = {temp}

\* C32 witness: the cache attempt and then the fan-out of the fallback
\* failed; the download was answered, both channel files were created and
\* lfs/tmp is empty
C32_Witness ==
    /\ apc = "read" /\ hit = "failed" /\ temp = 2 /\ dir = {} /\ ~result.ok

\* C33: when get of the http cache returns Ok, after any number of attempts
\* and also after attempts that met a 2xx status, wrote part of the body and
\* then failed in transport, the published length and the backing file are
\* the whole body of the last 2xx response and nothing else, and the writer
\* has finished once.  Every 2xx response starts its frames on an empty
\* channel with its whole body to come, the frames move the body to the
\* channel in order, and Ok is returned by the one finish, when all of the
\* body is on disk and published
C33_LastBodyOnly ==
    /\ [][apc = "http_get" /\ gpc # "body" /\ gpc' = "body" =>
            /\ gpc = "reset" /\ body' = body
            /\ calls # <<>> /\ calls[Len(calls)].kind = "response"
            /\ is_success(calls[Len(calls)].status)
            /\ written' = <<>> /\ file' = <<>> /\ wbuf' = <<>>
            /\ state'.size = 0 /\ ~state'.eof]_vars
    /\ [][apc = "http_get" /\ gpc = "reset" => body' = body]_vars
    /\ [][apc = "http_get" /\ gpc = "body" /\ gpc' = "body" =>
            written' \o body' = written \o body]_vars
    /\ [](apc = "http_get" /\ tpc.get = "ok" =>
            /\ gpc = "body" /\ body = <<>>
            /\ wpc = "finished" /\ wbuf = <<>>
            /\ file = written /\ state.size = Len(written) /\ state.eof)
    /\ [][apc = "http_get" /\ wpc' = "finished" /\ wpc # "finished" =>
            tpc.get = "run" /\ tpc'.get = "ok"]_vars
    /\ [][apc = "http_get" /\ wpc = "finished" =>
            wpc' = "finished" /\ tpc' = tpc /\ state' = state /\ file' = file]_vars

\* C33 witness: the first 2xx response had one byte written and published
\* when its body failed; the second 2xx response had an empty body, get
\* returned Ok and the channel is empty
C33_Witness ==
    /\ apc = "http_get" /\ tpc.get = "ok"
    /\ calls = <<[kind |-> "body", status |-> 200], [kind |-> "response", status |-> 200]>>
    /\ prewritten = <<1>> /\ written = <<>>
    /\ file = <<>> /\ state = [size |-> 0, eof |-> TRUE, gen |-> 2]
    /\ wpc = "finished"

\* C34: a stream ends only where eof is published and its position is the
\* published length; in no interleaving of write, finish and the steps of
\* the streams does a stream reach the end branch with eof false, so
\* assert!(eof) never fails
C34_EndOnlyAtEof ==
    \A r \in Readers :
       /\ rpc[r] # "panic"
       /\ rpc[r] = "done" => state.eof /\ pos[r] = state.size /\ wpc = "finished"

\* C34 witness: a stream opened before the first of two writes has ended at
\* the published length, after the writer finished
C34_Witness ==
    /\ rpc["body_0"] = "done"
    /\ nwrites = 2
    /\ state = [size |-> MaxBytes, eof |-> TRUE, gen |-> 0]
    /\ pos["body_0"] = MaxBytes

\* the fan-out of the download has ended well: the writer has finished and
\* every future of try_join3 is Ok
FanOutDone == wpc = "finished" /\ state.eof /\ \A t \in DOMAIN tpc : tpc[t] = "ok"

\* C35: a successful download goes through its steps in one order.  The
\* channel is kept only after the writer has finished and all futures of the
\* fan-out are Ok; the telemetry line is written only after the keep; the
\* complete with the path is written only after the telemetry line.  keep
\* never meets a writer that has not finished, and no line is written for a
\* download whose channel was not kept
C35_SuccessOrder ==
    /\ chan = "kept" => FanOutDone /\ apc \in {"log", "complete"} /\ result = Ok(temp)
    /\ apc = "log" => chan = "kept" /\ logs = <<>> /\ Completes = <<>>
    /\ apc = "complete" /\ result.ok => chan = "kept" /\ Len(logs) = 1 /\ Completes = <<>>
    /\ logs # <<>> =>
          /\ Len(logs) = 1 /\ logs[1].oid = oid
          /\ result = Ok(temp) /\ temp \in DOMAIN keptFile
          /\ apc \in {"complete", "read", "exit", "aborted"}
    /\ \A i \in 1..Len(stdout) :
          stdout[i].event = "complete" /\ stdout[i].path # None =>
             /\ i = Len(stdout) /\ stdout[i].error = None
             /\ stdout[i].path = Some(temp) /\ temp \in DOMAIN keptFile
             /\ Len(logs) = 1
    /\ DOMAIN keptFile # {} => result.ok /\ DOMAIN keptFile = {temp}

\* C35 witness: a download served by the server after a failed cache
\* attempt was answered with the path of its kept file, one line logged
C35_Witness ==
    /\ apc = "read" /\ hit = "failed"
    /\ result = Ok(2) /\ 2 \in DOMAIN keptFile
    /\ Len(logs) = 1
    /\ stdout[Len(stdout)] = Complete(oid, Some(2), None)

\* the request loop of main has ended
LoopEnded == apc \in {"exit", "aborted"}

\* C36: a download that fails is answered with a complete that carries the
\* error and the loop goes on to read the next request, which it can handle
\* as any other.  While a download runs the operation and the remote do not
\* change, and the cached discovery changes only by a discovery that
\* succeeded.  The loop ends only where it reads stdin, never inside a
\* download
C36_FailureKeepsSession ==
    /\ [][~Idle => /\ operation' = operation /\ remote' = remote
                   /\ ~LoopEnded']_vars
    /\ [][server_discovery' # server_discovery =>
            /\ apc \in {"discovery", "rediscovery"}
            /\ calls' # calls
            /\ calls'[Len(calls')].call = "server_discovery"
            /\ calls'[Len(calls')].outcome = "ok"
            /\ apc' \in {"batch", "batch_again"}]_vars
    /\ [][apc = "complete" /\ ~result.ok =>
            /\ apc' = "read"
            /\ stdout' = Append(stdout, Complete(oid, None, Some(error(result.error[1]))))
            /\ <<operation, remote, server_discovery>>' = <<operation, remote, server_discovery>>]_vars
    /\ [][LoopEnded' /\ ~LoopEnded => apc = "read" /\ Len(stdout') <= Len(stdout)]_vars
    /\ [](apc = "read" /\ request.event = "download" /\ ~result.ok =>
            /\ ENABLED (\E o \in Oids : Main_download(o))
            /\ ENABLED (\E op \in Operations, rm \in Remotes : Main_init(op, rm))
            /\ ENABLED Main_terminate)

\* C36 witness: a download whose re-discovery after a 401 failed was
\* answered with error 500; the discovery cached before is still there and
\* the loop is back at reading stdin
C36_Witness ==
    /\ apc = "read" /\ request.event = "download"
    /\ ~result.ok
    /\ calls # <<>> /\ calls[Len(calls)] = discovery_call(TRUE, "error")
    /\ server_discovery # None /\ ~server_discovery[1].authorization
    /\ stdout[Len(stdout)] = Complete(oid, None, Some([code |-> 500, message |-> "server_discovery"]))

\* no init request has been handled yet
Uninitialized == operation = "none" /\ remote = "none"

\* C37: a download that comes before any init and reaches the server path,
\* with no cache or after a failed cache attempt, fails there with
\* "uninitialized", answered with code 500: no discovery, batch request or
\* GET is made and the cached discovery stays unset.  Such a download
\* succeeds only by a cache hit
C37_UninitializedDownload ==
    /\ operation = "none" <=> remote = "none"
    /\ Uninitialized =>
          /\ server_discovery = None
          /\ calls = <<>>
          /\ apc \notin {"batch", "rediscovery", "batch_again", "object", "get",
                         "miss_init", "miss_open", "miss"}
          /\ result.ok => hit = "ok" /\ cache # "none"
          /\ request.event = "download" /\ apc \in {"complete", "read"} /\ hit # "ok" =>
                /\ result = Err(OtherError("uninitialized"))
                /\ error(result.error[1]) = [code |-> 500, message |-> "uninitialized"]
                /\ logs = <<>> /\ keptFile = <<>>
          /\ request.event = "download" /\ apc = "read" /\ hit # "ok" =>
                stdout[Len(stdout)] =
                   Complete(oid, None, Some([code |-> 500, message |-> "uninitialized"]))

\* C37 witness: before any init a download whose cache attempt failed was
\* answered with 500 "uninitialized"
C37_Witness ==
    /\ Uninitialized /\ request.event = "download" /\ apc = "read"
    /\ hit = "failed" /\ server_discovery = None
    /\ stdout[Len(stdout)] =
          Complete(oid, None, Some([code |-> 500, message |-> "uninitialized"]))

\* before any init a download was served by the cache
C37_WitnessHit ==
    /\ Uninitialized /\ request.event = "download" /\ apc = "read"
    /\ hit = "ok" /\ result.ok

\* main reads an init request and answers it
InitStep == apc = "read" /\ apc' = "read" /\ request'.event = "init"

\* the remote the cached discovery was derived for differs from the
\* session's remote
StaleDiscovery == server_discovery # None /\ server_discovery[1].remote # remote

\* C38: an init sets the operation and the remote of the session and is
\* answered without an error; it leaves the cached discovery and everything
\* else of the session as it is.  After an init that names another remote a
\* download still takes the discovery derived for the earlier remote,
\* calling no discovery, and the cached value moves to the new remote only
\* by the discovery with authorization that follows a 401
C38_InitKeepsDiscovery ==
    /\ [][InitStep =>
            /\ operation' \in Operations /\ remote' \in TwoRemotes
            /\ stdout' = <<[event |-> "init", error |-> None]>>
            /\ <<server_discovery, cache>>' = <<server_discovery, cache>>
            /\ UNCHANGED <<chan, file, state, wpc, fsVars, sdVars>>]_vars
    /\ [][<<operation, remote>>' # <<operation, remote>> => InitStep]_vars
    /\ [][apc = "discovery" /\ StaleDiscovery =>
            /\ apc' = "batch"
            /\ UNCHANGED <<server_discovery, calls, result>>]_vars
    /\ [][StaleDiscovery /\ server_discovery' # server_discovery =>
            /\ apc = "rediscovery"
            /\ calls # <<>> /\ calls[Len(calls)].call = "batch"
            /\ calls[Len(calls)].status = 401
            /\ server_discovery' = Some([authorization |-> TRUE, remote |-> remote])]_vars
    /\ [](StaleDiscovery /\ apc \in {"batch", "object", "get"} =>
            \A i \in 1..Len(calls) : calls[i].call # "server_discovery")

\* C38 witness: after a discovery for origin an init named upstream; the
\* next download is at its batch request with the discovery of origin and
\* has called no discovery
C38_Witness ==
    /\ apc = "batch" /\ request.event = "download"
    /\ remote = "upstream"
    /\ server_discovery = Some([authorization |-> FALSE, remote |-> "origin"])
    /\ calls = <<>>

\* the download read last was served by the server with a cache configured
MissWithCache == request.event = "download" /\ cache # "none" /\ hit # "ok"

\* C39: when a download served by the server succeeds with a cache
\* configured, what cache.put consumed and stored under the oid is the
\* content of the file kept for the download, and both are the body of the
\* server's response, byte for byte in order
C39_StoredIsKept ==
    /\ MissWithCache /\ apc \in {"miss_open", "miss"} => written \o body \in Bodies
    /\ MissWithCache /\ apc \in {"miss_open", "miss"} /\ tpc.check = "ok" =>
          store = {<<oid, out["body_0"]>>} /\ IsPrefix(out["body_0"], written \o body)
    /\ MissWithCache /\ result.ok =>
          /\ temp \in DOMAIN keptFile
          /\ store = {<<oid, keptFile[temp]>>}
          /\ keptFile[temp] \in Bodies
          /\ apc \in {"log", "complete"} =>
                /\ body = <<>> /\ keptFile[temp] = written /\ file = written
                /\ out["body_0"] = written

\* C39 witness: after a failed cache attempt the server's two bytes were
\* kept and put under the oid, and the download was answered
C39_Witness ==
    /\ MissWithCache /\ apc = "read" /\ result.ok
    /\ hit = "failed"
    /\ keptFile[temp] = <<1, 2>>
    /\ store = {<<oid, <<1, 2>>>>}

\* C40: in every state the position of every stream is at most the
\* published length: a stream never yields bytes that are in the backing
\* file but whose length the writer has not published yet
C40_PositionWithinPublished ==
    \A r \in Readers : pos[r] <= state.size

====
